---- MODULE Spec2Model ----
(***************************************************************************)
(* Verification model of the autommo rotation gate.                        *)
(*                                                                         *)
(* KeySender.evaluate_and_send (src/src/automation/key_sender.py) is the   *)
(* operator EvaluateAndSend; the action Tick is one call of it by the      *)
(* frame handler (src/modules/cooldown_rotation/module.py, on_frame).      *)
(* Times are integers in milliseconds.  Key strings are sequences of       *)
(* characters so that str.strip() is computed and not assumed.  A Python   *)
(* Optional is a sequence of length at most one: <<>> is None.             *)
(***************************************************************************)
EXTENDS Integers, Sequences, FiniteSets, TLC

(* ------------------------------ bounds -------------------------------- *)

\* Number of slots the analyzer may be configured with (slot_count).
NumSlots == 2

\* Longest priority list of the active profile.
MaxPriorityLen == 2

\* time.time() at construction, in ms (any value past the largest interval).
StartClock == 1000

\* Granularity of the clock between two observations, in ms.
ClockStep == 75

\* How many times the clock advances in a run.
MaxAdvances == 2

\* How many key presses the input hook enqueues in a run.
MaxEnqueues == 3

\* How many calibrations the GUI thread runs.
MaxCalibrations == 4

\* Modules in the manager's load order, and ticks of the capture worker.
NumModules == 2

MaxTicks == 2

\* How many buff ROIs a configuration holds.
MaxBuffRois == 1

\* How many ticks the glow hysteresis is followed for.
MaxGlowTicks == 4

\* Pixels in a grayscale buffer handed to the template comparison.
MaxBufferLen == 3

(* ----------------------------- constants ------------------------------ *)

\* getattr(self._config, "min_press_interval_ms", 150) or 150
DefaultMinPressIntervalMs == 150

(* --------------------------- value domains ---------------------------- *)

SlotIndices == 0 .. (NumSlots - 1)

\* SlotState members the analyzer produces (analyze_frame).
SlotStates == {"UNKNOWN", "ON_COOLDOWN", "READY"}

\* Keybind strings of the configuration: a blank one, and one str.strip() changes.
KeybindChoices == {<<" ">>, <<" ", "2">>}

\* Key strings of a queue entry: empty, whitespace only, and one that
\* str.strip() changes.
QueueKeyChoices == {<<>>, <<" ">>, <<" ", "q">>}

QueueSources == {"whitelist", "tracked"}

\* min_press_interval_ms of the configuration; 0 selects the default.
IntervalChoices == {0, 75}

\* Sequences over S of length at most n.
SeqUpTo(S, n) == UNION {[1 .. k -> S] : k \in 0 .. n}

\* ActionBarState.slots: one SlotSnapshot per configured slot, in index order.
ActionBarStates ==
    UNION {{[i \in 1 .. n |-> [index |-> i - 1, state |-> f[i]]] :
                f \in [1 .. n -> SlotStates]} : n \in 0 .. NumSlots}

\* The priority list of a profile: the panel never adds a slot twice.
PriorityOrders ==
    {p \in SeqUpTo(SlotIndices, MaxPriorityLen) :
        \A i, j \in 1 .. Len(p) : p[i] = p[j] => i = j}

KeybindLists == SeqUpTo(KeybindChoices, NumSlots)

\* QueueEntry as handed to the gate: source, key, optional slot_index.
QueueEntries ==
    [source : QueueSources, key : QueueKeyChoices,
     slot_index : {<<>>} \cup {<<i>> : i \in SlotIndices}]

(* ------------------------------- state -------------------------------- *)

VARIABLES
    now,                    \* time.time(), ms
    last_send_time,         \* KeySender._last_send_time, ms
    min_press_interval_ms,  \* AppConfig.min_press_interval_ms
    automation_enabled,     \* AppConfig.automation_enabled
    priority_order,         \* active profile's priority order
    keybinds,               \* AppConfig.keybinds
    slots,                  \* ActionBarState.slots of the current frame
    has_listener,           \* the module holds a QueueListener
    queue,                  \* the listener's single QueueEntry, or <<>>
    sent_times,             \* history: timestamps of the calls that returned "sent"
    call                    \* the call of evaluate_and_send that just returned, or <<>>

\* The rotation gate and what feeds it.
gate_vars ==
    <<now, last_send_time, min_press_interval_ms, automation_enabled,
      priority_order, keybinds, slots, has_listener, queue, sent_times, call>>

VARIABLES
    cast_ends_at,              \* the cast detector's in-flight cast: <<t>>, or <<>>
    allow_cast_while_casting   \* AppConfig.allow_cast_while_casting

cast_vars == <<cast_ends_at, allow_cast_while_casting>>

VARIABLES
    frame_pc,        \* on_frame: "idle", or "snapshotted" once get_queue() returned
    queued_snapshot, \* on_frame's local `queued`
    queued_id,       \* history: identity of the entry in `queued` (0: none)
    queue_id,        \* history: identity of the listener's live entry (0: none)
    next_id,         \* history: identity the next enqueued entry gets
    sent_ids,        \* history: identities of the entries sent, in order
    cleared_unsent   \* history: identities of entries cleared without being sent

race_vars ==
    <<frame_pc, queued_snapshot, queued_id, queue_id, next_id, sent_ids,
      cleared_unsent>>

VARIABLES
    baseline_gen,   \* SlotAnalyzer._baselines: per slot, the calibration that wrote it
    calib_pc,       \* calibrate_baselines: 0 idle, k about to write slot k-1
    calib_gen,      \* number of calibrations started
    analyze_pc,     \* analyze_frame: 0 idle, k about to classify slot k-1
    seen_gen        \* per slot classified in the current frame, the baseline's calibration

calib_vars == <<baseline_gen, calib_pc, calib_gen, analyze_pc, seen_gen>>

VARIABLES
    worker_pc,       \* ModuleCaptureWorker.run: "test", "capture", "modules", "sleep", "stopped"
    running,         \* ModuleCaptureWorker._running
    module_enabled,  \* BaseModule.enabled of each module, in load order
    module_idx,      \* process_frame: position in _load_order (1-based)
    frame_ok,        \* this tick's capture returned a frame
    on_frame_calls,  \* history: modules whose on_frame was called this tick
    tick_raised,     \* history: what raised this tick (0: the capture, k: module k)
    prev_raised,     \* history: something raised in the previous tick
    ticks            \* history: ticks completed

worker_vars ==
    <<worker_pc, running, module_enabled, module_idx, frame_ok, on_frame_calls,
      tick_raised, prev_raised, ticks>>

VARIABLES
    analyzer_config,  \* SlotAnalyzer._config: slot_count, gap, box size, threshold (percent)
    slot_configs,     \* SlotAnalyzer._slot_configs
    baselines,        \* SlotAnalyzer._baselines: per index <<brightness>>, or <<>> if absent
    snapshots,        \* the slots of the ActionBarState analyze_frame returned last
    analyzer_last     \* history: the analyzer method that ran last

analyzer_vars ==
    <<analyzer_config, slot_configs, baselines, snapshots, analyzer_last>>

VARIABLES
    capture_config,  \* bounding_box, cast_bar_region and buff_rois of the configuration
    monitor_size,    \* width and height of the selected monitor
    capture_plan     \* the capture plan computed last: <<plan>>, or <<>>

plan_vars == <<capture_config, monitor_size, capture_plan>>

VARIABLES
    buff_rois,   \* the stored cooldown_rotation config's buff_rois
    buff_call    \* the calibrate_buff_roi_present call that returned last: <<record>>, or <<>>

buff_vars == <<buff_rois, buff_call>>

VARIABLES
    glow_confirm_frames,  \* the configured number of confirming ticks
    glow_count,           \* per slot, the hysteresis counter
    glow_ready,           \* per slot, the glow `ready` flag of the last tick
    glow_history          \* history: per slot, whether each tick so far qualified

glow_vars == <<glow_confirm_frames, glow_count, glow_ready, glow_history>>

VARIABLE similarity  \* a _template_similarity call: its two buffers and, once returned, its score

similarity_vars == <<similarity>>

VARIABLE manager  \* ModuleManager: what was discovered, the load() argument, and the calls made

manager_vars == <<manager>>

VARIABLES
    profile_config,  \* cooldown_rotation config: priority_profiles (their ids) and active_priority_profile_id
    profile_call     \* the profile-switching call that returned last: <<record>>, or <<>>

profile_vars == <<profile_config, profile_call>>

VARIABLES
    persisted        \* baseline persistence: the analyzer's table, config["slot_baselines"] and the table decoded from it

persist_vars == <<persisted>>

VARIABLES
    lifecycle        \* start/stop of the capture worker: GUI thread, worker thread, _running, the capture context

lifecycle_vars == <<lifecycle>>

VARIABLES
    onekey           \* CaptureOneKeyThread: _done, run's `result`, the two listener callbacks, emitted signals

onekey_vars == <<onekey>>

VARIABLES
    cropping         \* crop_slot: config.slot_padding and the last call (slot, selected region)

crop_vars == <<cropping>>

\* Everything the gate's own actions leave alone.
other_vars == <<cast_vars, race_vars, calib_vars, worker_vars, analyzer_vars, plan_vars, buff_vars, glow_vars, similarity_vars, manager_vars, profile_vars, persist_vars, lifecycle_vars, onekey_vars, crop_vars>>

vars == <<gate_vars, other_vars>>

\* What the cast detector's actions leave alone.
OutsideCast == <<race_vars, calib_vars, worker_vars, analyzer_vars, plan_vars, buff_vars, glow_vars, similarity_vars, manager_vars, profile_vars, persist_vars, lifecycle_vars, onekey_vars, crop_vars>>

\* What the on_frame steps and the input hook leave alone.
OutsideRace == <<cast_vars, calib_vars, worker_vars, analyzer_vars, plan_vars, buff_vars, glow_vars, similarity_vars, manager_vars, profile_vars, persist_vars, lifecycle_vars, onekey_vars, crop_vars>>

\* What the analyzer's two loops leave alone.
OutsideCalib == <<cast_vars, race_vars, worker_vars, analyzer_vars, plan_vars, buff_vars, glow_vars, similarity_vars, manager_vars, profile_vars, persist_vars, lifecycle_vars, onekey_vars, crop_vars>>

\* What the capture worker's steps leave alone.
OutsideWorker == <<cast_vars, race_vars, calib_vars, analyzer_vars, plan_vars, buff_vars, glow_vars, similarity_vars, manager_vars, profile_vars, persist_vars, lifecycle_vars, onekey_vars, crop_vars>>

\* What the analyzer's methods leave alone.
OutsideAnalyzer == <<cast_vars, race_vars, calib_vars, worker_vars, plan_vars, buff_vars, glow_vars, similarity_vars, manager_vars, profile_vars, persist_vars, lifecycle_vars, onekey_vars, crop_vars>>

\* What planning a capture leaves alone.
OutsidePlan == <<cast_vars, race_vars, calib_vars, worker_vars, analyzer_vars, buff_vars, glow_vars, similarity_vars, manager_vars, profile_vars, persist_vars, lifecycle_vars, onekey_vars, crop_vars>>

\* What a buff calibration leaves alone.
OutsideBuff == <<cast_vars, race_vars, calib_vars, worker_vars, analyzer_vars, plan_vars, glow_vars, similarity_vars, manager_vars, profile_vars, persist_vars, lifecycle_vars, onekey_vars, crop_vars>>

\* What the glow hysteresis leaves alone.
OutsideGlow == <<cast_vars, race_vars, calib_vars, worker_vars, analyzer_vars, plan_vars, buff_vars, similarity_vars, manager_vars, profile_vars, persist_vars, lifecycle_vars, onekey_vars, crop_vars>>

\* What a template comparison leaves alone.
OutsideSimilarity == <<cast_vars, race_vars, calib_vars, worker_vars, analyzer_vars, plan_vars, buff_vars, glow_vars, manager_vars, profile_vars, persist_vars, lifecycle_vars, onekey_vars, crop_vars>>

\* What the module manager leaves alone.
OutsideManager == <<cast_vars, race_vars, calib_vars, worker_vars, analyzer_vars, plan_vars, buff_vars, glow_vars, similarity_vars, profile_vars, persist_vars, lifecycle_vars, onekey_vars, crop_vars>>

\* What switching the priority profile leaves alone.
OutsideProfile == <<cast_vars, race_vars, calib_vars, worker_vars, analyzer_vars, plan_vars, buff_vars, glow_vars, similarity_vars, manager_vars, persist_vars, lifecycle_vars, onekey_vars, crop_vars>>

\* What saving and loading baselines leaves alone.
OutsidePersist == <<cast_vars, race_vars, calib_vars, worker_vars, analyzer_vars, plan_vars, buff_vars, glow_vars, similarity_vars, manager_vars, profile_vars, lifecycle_vars, onekey_vars, crop_vars>>

\* What starting and stopping the capture worker leaves alone.
OutsideLifecycle == <<cast_vars, race_vars, calib_vars, worker_vars, analyzer_vars, plan_vars, buff_vars, glow_vars, similarity_vars, manager_vars, profile_vars, persist_vars, onekey_vars, crop_vars>>

\* What capturing one key leaves alone.
OutsideOneKey == <<cast_vars, race_vars, calib_vars, worker_vars, analyzer_vars, plan_vars, buff_vars, glow_vars, similarity_vars, manager_vars, profile_vars, persist_vars, lifecycle_vars, crop_vars>>

\* What crop_slot leaves alone.
OutsideCrop == <<cast_vars, race_vars, calib_vars, worker_vars, analyzer_vars, plan_vars, buff_vars, glow_vars, similarity_vars, manager_vars, profile_vars, persist_vars, lifecycle_vars, onekey_vars>>

(* ------------------------- Python primitives -------------------------- *)

IsSpace(c) == c = " "

RECURSIVE LStrip(_)
LStrip(s) == IF s # <<>> /\ IsSpace(Head(s)) THEN LStrip(Tail(s)) ELSE s

RECURSIVE RStrip(_)
RStrip(s) ==
    IF s # <<>> /\ IsSpace(s[Len(s)]) THEN RStrip(SubSeq(s, 1, Len(s) - 1)) ELSE s

\* (s or "").strip(): None is <<>>, which is also the empty string.
Strip(s) == RStrip(LStrip(s))

SetMax(S) == CHOOSE x \in S : \A y \in S : y <= x

(* ------------------- KeySender.evaluate_and_send ---------------------- *)

\* One call's inputs: the arguments, the KeySender's fields, and what the
\* environment answers during the call (the clock, the two foreground-window
\* reads and whether keyboard.send raises).
CallInputs(window_ok, window_recheck, send_ok) ==
    [ state              |-> slots,
      priority_order     |-> priority_order,
      keybinds           |-> keybinds,
      automation_enabled |-> automation_enabled,
      queued_override    |-> queue,
      has_callback       |-> has_listener,
      last_send_time     |-> last_send_time,
      min_press_interval_ms |-> min_press_interval_ms,
      now                |-> now,
      window_ok          |-> window_ok,
      window_recheck     |-> window_recheck,
      send_ok            |-> send_ok ]

\* The dict returned for the UI; absent keys are "" / <<>> / FALSE.
Result(keybind, action, reason, timestamp, slot_index, queued) ==
    [ keybind |-> keybind, action |-> action, reason |-> reason,
      timestamp |-> timestamp, slot_index |-> slot_index, queued |-> queued ]

\* What one call does: the value returned, the keys handed to keyboard.send,
\* the number of on_queued_sent() invocations, and _last_send_time afterwards.
Outcome(result, sends, callbacks, new_last_send_time) ==
    [ result |-> result, sends |-> sends, callbacks |-> callbacks,
      last_send_time |-> new_last_send_time ]

\* return None before any send.
Nothing(in) == Outcome(<<>>, <<>>, 0, in.last_send_time)

\* Faulty variant: the automation_enabled test is missing.
AutomationOffNever(in) == FALSE

\* if not automation_enabled: return None
AutomationOff(in) == ~in.automation_enabled

\* (getattr(config, "min_press_interval_ms", 150) or 150), kept in ms
MinIntervalMs(in) ==
    IF in.min_press_interval_ms = 0 THEN DefaultMinPressIntervalMs
    ELSE in.min_press_interval_ms

\* Faulty variant: the interval is converted to seconds, the elapsed time is not.
MinIntervalOkSeconds(in) ==
    in.now - in.last_send_time >= MinIntervalMs(in) \div 1000

\* min_interval_ok = (now - self._last_send_time) >= min_interval_sec
MinIntervalOk(in) == in.now - in.last_send_time >= MinIntervalMs(in)

\* slots_by_index = {s.index: s for s in state.slots}; slots_by_index.get(i)
SlotAt(state, slot_index) ==
    LET at == {i \in 1 .. Len(state) : state[i].index = slot_index}
    IN  IF at = {} THEN <<>> ELSE <<state[SetMax(at)]>>

\* slot and slot.state == SlotState.READY
SlotReady(state, slot_index) ==
    LET slot == SlotAt(state, slot_index)
    IN  slot # <<>> /\ slot[1].state = "READY"

\* Faulty variant: the keybind list is indexed from one.
KeybindAtOneBased(kb, slot_index) ==
    IF slot_index < Len(kb) /\ slot_index >= 1 THEN kb[slot_index] ELSE <<>>

\* keybinds[slot_index] if slot_index < len(keybinds) else None
KeybindAt(kb, slot_index) ==
    IF slot_index < Len(kb) THEN kb[slot_index + 1] ELSE <<>>

\* Faulty variant: on_queued_sent() runs before keyboard.send.
SendQueuedCallbackFirst(in, key, slot_index) ==
    LET cb == IF in.has_callback THEN 1 ELSE 0
    IN  IF ~in.send_ok
        THEN Outcome(<<>>, <<key>>, cb, in.last_send_time)
        ELSE Outcome(<<Result(key, "sent", "", <<in.now>>, slot_index, TRUE)>>,
                     <<key>>, cb, in.now)

\* try: keyboard.send(key) / except: return None / self._last_send_time = now /
\* if on_queued_sent: on_queued_sent() / return {..., "queued": True}
SendQueued(in, key, slot_index) ==
    IF ~in.send_ok
    THEN Outcome(<<>>, <<key>>, 0, in.last_send_time)
    ELSE Outcome(<<Result(key, "sent", "", <<in.now>>, slot_index, TRUE)>>,
                 <<key>>, IF in.has_callback THEN 1 ELSE 0, in.now)

\* Faulty variant: the whitelist branch also asks for a READY bound slot.
WhitelistBranchNeedsReadySlot(in, key) ==
    LET slot_index == in.queued_override[1].slot_index
    IN  IF /\ slot_index # <<>>
           /\ SlotReady(in.state, slot_index[1])
           /\ MinIntervalOk(in) /\ in.window_ok
        THEN SendQueued(in, key, <<>>)
        ELSE Nothing(in)

\* if source == "whitelist" and key: ... return None
WhitelistBranch(in, key) ==
    IF MinIntervalOk(in) /\ in.window_ok
    THEN SendQueued(in, key, <<>>)
    ELSE Nothing(in)

\* Faulty variant: the tracked branch does not look at the bound slot.
TrackedBranchAnyState(in, key) ==
    LET slot_index == in.queued_override[1].slot_index
    IN  IF /\ slot_index # <<>> /\ key # <<>>
           /\ MinIntervalOk(in) /\ in.window_ok
        THEN SendQueued(in, key, slot_index)
        ELSE Nothing(in)

\* if source == "tracked": ... return None
TrackedBranch(in, key) ==
    LET slot_index == in.queued_override[1].slot_index
    IN  IF /\ slot_index # <<>> /\ key # <<>>
           /\ SlotReady(in.state, slot_index[1])
           /\ MinIntervalOk(in) /\ in.window_ok
        THEN SendQueued(in, key, slot_index)
        ELSE Nothing(in)

\* Faulty variant: a window block stamps _last_send_time.
BlockedRecordsSend(in, keybind, slot_index) ==
    Outcome(<<Result(keybind, "blocked", "window", <<>>, <<slot_index>>, FALSE)>>,
            <<>>, 0, in.now)

\* if not self.is_target_window_active(): return {..., "action": "blocked", ...}
Blocked(in, keybind, slot_index) ==
    Outcome(<<Result(keybind, "blocked", "window", <<>>, <<slot_index>>, FALSE)>>,
            <<>>, 0, in.last_send_time)

\* Faulty variant: _last_send_time is stamped before keyboard.send.
SendPriorityStampFirst(in, keybind, slot_index) ==
    IF ~in.send_ok
    THEN Outcome(<<>>, <<keybind>>, 0, in.now)
    ELSE Outcome(<<Result(keybind, "sent", "", <<in.now>>, <<slot_index>>, FALSE)>>,
                 <<keybind>>, 0, in.now)

\* try: keyboard.send(keybind) / except: return None / self._last_send_time = now /
\* return {"keybind", "action": "sent", "timestamp", "slot_index"}
SendPriority(in, keybind, slot_index) ==
    IF ~in.send_ok
    THEN Outcome(<<>>, <<keybind>>, 0, in.last_send_time)
    ELSE Outcome(<<Result(keybind, "sent", "", <<in.now>>, <<slot_index>>, FALSE)>>,
                 <<keybind>>, 0, in.now)

\* for slot_index in priority_order: ... return None
RECURSIVE PriorityWalk(_, _)
PriorityWalk(in, i) ==
    IF i > Len(in.priority_order) THEN Nothing(in)
    ELSE LET slot_index == in.priority_order[i]
             keybind    == Strip(KeybindAt(in.keybinds, slot_index))
         IN  IF ~SlotReady(in.state, slot_index) THEN PriorityWalk(in, i + 1)
             ELSE IF keybind = <<>> THEN PriorityWalk(in, i + 1)
             ELSE IF ~in.window_recheck THEN Blocked(in, keybind, slot_index)
             ELSE SendPriority(in, keybind, slot_index)

\* The priority part of the call: if not min_interval_ok: return None, then the loop.
PriorityPart(in) ==
    IF ~MinIntervalOk(in) THEN Nothing(in) ELSE PriorityWalk(in, 1)

\* Faulty variant: the queue branches do not return and the loop runs as well.
EvaluateAndSendQueueThenPriority(in) ==
    IF AutomationOff(in) THEN Nothing(in)
    ELSE LET q   == in.queued_override
             key == IF q = <<>> THEN <<>> ELSE Strip(q[1].key)
             a   == IF q # <<>> /\ q[1].source = "whitelist" /\ key # <<>>
                    THEN WhitelistBranch(in, key)
                    ELSE IF q # <<>> /\ q[1].source = "tracked"
                    THEN TrackedBranch(in, key)
                    ELSE Nothing(in)
             b   == PriorityWalk([in EXCEPT !.last_send_time = a.last_send_time], 1)
         IN  Outcome(IF a.result # <<>> THEN a.result ELSE b.result,
                     a.sends \o b.sends, a.callbacks + b.callbacks,
                     b.last_send_time)

\* KeySender.evaluate_and_send
EvaluateAndSend(in) ==
    IF AutomationOff(in) THEN Nothing(in)
    ELSE LET q   == in.queued_override
             key == IF q = <<>> THEN <<>> ELSE Strip(q[1].key)
         IN  IF q # <<>> /\ q[1].source = "whitelist" /\ key # <<>>
             THEN WhitelistBranch(in, key)
             ELSE IF q # <<>> /\ q[1].source = "tracked"
             THEN TrackedBranch(in, key)
             ELSE PriorityPart(in)


(* ------------------------------ actions ------------------------------- *)

\* Configurations the runs with a queue listener start from: priority order
\* and keybind list of the active profile.
ConfiguredProfiles ==
    { [priority_order |-> <<1, 0>>, keybinds |-> << <<"1">>, <<" ", "2">> >>],
      [priority_order |-> <<0, 1>>, keybinds |-> << <<" ">>, <<"1">> >>],
      [priority_order |-> <<0>>,    keybinds |-> << >>] }

\* No cast is in flight and none is ever reported.
CastIdle ==
    /\ cast_ends_at = <<>>
    /\ allow_cast_while_casting = FALSE

\* on_frame is between two frames and no entry was enqueued yet.
RaceIdle ==
    /\ frame_pc = "idle"
    /\ queued_snapshot = <<>>
    /\ queued_id = 0
    /\ queue_id = 0
    /\ next_id = 1
    /\ sent_ids = <<>>
    /\ cleared_unsent = {}

\* The analyzer holds its first baseline table and neither thread is in a loop.
CalibIdle ==
    /\ baseline_gen = [i \in SlotIndices |-> 0]
    /\ calib_pc = 0
    /\ calib_gen = 0
    /\ analyze_pc = 0
    /\ seen_gen = <<>>

\* The capture worker has not entered its loop.
WorkerIdle ==
    /\ worker_pc = "test"
    /\ running = TRUE
    /\ module_enabled = [k \in 1 .. NumModules |-> TRUE]
    /\ module_idx = 1
    /\ frame_ok = FALSE
    /\ on_frame_calls = <<>>
    /\ tick_raised = {}
    /\ prev_raised = FALSE
    /\ ticks = 0

\* An analyzer of one slot that has not been used; the layout is the one
\* _recompute_slot_layout gives for that configuration.
AnalyzerIdle ==
    /\ analyzer_config =
           [slot_count |-> 1, slot_gap_pixels |-> 0, width |-> 1, height |-> 1,
            brightness_threshold |-> 60]
    /\ slot_configs =
           << [index |-> 0, x_offset |-> 0, y_offset |-> 0, width |-> 1, height |-> 1] >>
    /\ baselines = [i \in SlotIndices |-> <<>>]
    /\ snapshots = <<>>
    /\ analyzer_last = "__init__"

\* An action bar alone on its monitor, no capture planned yet.
PlanIdle ==
    /\ capture_config =
           [bounding_box    |-> [left |-> 1, top |-> 1, width |-> 2, height |-> 2],
            cast_bar_region |-> [enabled |-> FALSE, left |-> 2, top |-> 0,
                                 width |-> 1, height |-> 2],
            buff_rois       |-> <<>>]
    /\ monitor_size = [width |-> 8, height |-> 6]
    /\ capture_plan = <<>>

\* Two uncalibrated buff ROIs inside the monitor; no calibration has run.
BuffIdle ==
    /\ buff_rois =
           << [id |-> <<" ", "A">>, left |-> 0, top |-> 0, width |-> 2, height |-> 2,
               calibration |-> <<>>],
              [id |-> <<"b">>, left |-> 0, top |-> 0, width |-> 2, height |-> 2,
               calibration |-> <<>>] >>
    /\ buff_call = <<>>

\* No tick has examined a glow ring yet.
GlowIdle ==
    /\ glow_confirm_frames = 1
    /\ glow_count = [i \in SlotIndices |-> 0]
    /\ glow_ready = [i \in SlotIndices |-> FALSE]
    /\ glow_history = [i \in SlotIndices |-> <<>>]

\* No buffers have been compared.
SimilarityIdle == similarity = [roi |-> <<0>>, template |-> <<0>>, score |-> <<>>]

\* A manager that has discovered no module and loaded nothing.
ManagerIdle ==
    manager = [discovered |-> {}, requires |-> <<>>, optional |-> <<>>,
               module_keys |-> <<>>, failing |-> {}, phase |-> "discovered",
               load_order |-> <<>>, setup_calls |-> <<>>, ready_calls |-> <<>>,
               on_frame_calls |-> <<>>, teardown_calls |-> <<>>]

\* Two profiles, the first one active; no switch has been asked for.
ProfileIdle ==
    /\ profile_config =
           [priority_profiles |-> << <<"A">>, <<"b">> >>,
            active_priority_profile_id |-> <<"A">>]
    /\ profile_call = <<>>

\* Nothing calibrated, nothing saved, nothing restored.
PersistIdle ==
    persisted = [baselines |-> <<>>, slot_baselines |-> <<>>, restored |-> <<>>]

\* The worker has been constructed and never started.
LifecycleIdle ==
    lifecycle = [gui |-> "stopped_ui", thread |-> "none", running |-> FALSE,
                 capture |-> "none", starts |-> 0, ticks |-> 0,
                 last_tick_raised |-> FALSE, tick_after_return |-> FALSE]

\* The thread runs with both listeners started and no event delivered yet.
OneKeyIdle ==
    onekey = [done |-> FALSE, result |-> <<>>, run_pc |-> "loop", cancelled |-> FALSE,
              k_pc |-> "idle", k_key |-> <<>>,
              m_pc |-> "idle", m_button |-> <<>>, m_pressed |-> FALSE,
              emitted |-> <<>>]

\* The migrated default padding; crop_slot has not been called.
CropIdle ==
    cropping = [slot_padding |-> 3, crop |-> <<>>]

\* The components outside the gate at rest.
OthersIdle == CastIdle /\ RaceIdle /\ CalibIdle /\ WorkerIdle /\ AnalyzerIdle /\ PlanIdle /\ BuffIdle /\ GlowIdle /\ SimilarityIdle /\ ManagerIdle /\ ProfileIdle /\ PersistIdle /\ LifecycleIdle /\ OneKeyIdle /\ CropIdle

InitCommon ==
    /\ now = StartClock
    /\ last_send_time = 0
    /\ automation_enabled = FALSE
    /\ slots = <<>>
    /\ queue = <<>>
    /\ sent_times = {}
    /\ call = <<>>

\* A module with a QueueListener; the profile is not edited during the run.
Init ==
    /\ InitCommon
    /\ OthersIdle
    /\ min_press_interval_ms \in IntervalChoices
    /\ has_listener = TRUE
    /\ \E p \in ConfiguredProfiles :
          priority_order = p.priority_order /\ keybinds = p.keybinds

\* A module without a QueueListener; the profile is edited during the run.
InitPriority ==
    /\ InitCommon
    /\ OthersIdle
    /\ min_press_interval_ms = 75
    /\ has_listener = FALSE
    /\ priority_order = <<>>
    /\ keybinds = <<>>

\* The wall clock moves on between two calls.
Advance ==
    /\ call = <<>>
    /\ now + ClockStep <= StartClock + MaxAdvances * ClockStep
    /\ now' = now + ClockStep
    /\ UNCHANGED <<last_send_time, min_press_interval_ms, automation_enabled,
                   priority_order, keybinds, slots, has_listener, queue,
                   sent_times, call>>
    /\ UNCHANGED other_vars

\* SlotAnalyzer.analyze_frame hands the frame's ActionBarState to the gate.
AnalyzeFrame ==
    /\ call = <<>>
    /\ \E s \in ActionBarStates : slots' = s
    /\ UNCHANGED <<now, last_send_time, min_press_interval_ms, automation_enabled,
                   priority_order, keybinds, has_listener, queue, sent_times, call>>
    /\ UNCHANGED other_vars

\* The automation toggle (hotkey or button) flips automation_enabled.
ToggleAutomation ==
    /\ call = <<>>
    /\ automation_enabled' = ~automation_enabled
    /\ UNCHANGED <<now, last_send_time, min_press_interval_ms, priority_order,
                   keybinds, slots, has_listener, queue, sent_times, call>>
    /\ UNCHANGED other_vars

\* The priority panel saves a new order for the active profile.
SetPriorityOrder ==
    /\ call = <<>>
    /\ \E p \in PriorityOrders : priority_order' = p
    /\ UNCHANGED <<now, last_send_time, min_press_interval_ms, automation_enabled,
                   keybinds, slots, has_listener, queue, sent_times, call>>
    /\ UNCHANGED other_vars

\* The settings save a new keybind list.
SetKeybinds ==
    /\ call = <<>>
    /\ \E k \in KeybindLists : keybinds' = k
    /\ UNCHANGED <<now, last_send_time, min_press_interval_ms, automation_enabled,
                   priority_order, slots, has_listener, queue, sent_times, call>>
    /\ UNCHANGED other_vars

\* The input hook stores a new QueueEntry; the newest entry replaces the old one.
Enqueue ==
    /\ call = <<>>
    /\ has_listener
    /\ \E e \in QueueEntries : queue' = <<e>>
    /\ UNCHANGED <<now, last_send_time, min_press_interval_ms, automation_enabled,
                   priority_order, keybinds, slots, has_listener, sent_times, call>>
    /\ UNCHANGED other_vars

\* The live entry passes its timeout_at and is dropped.
QueueTimeout ==
    /\ call = <<>>
    /\ queue # <<>>
    /\ queue' = <<>>
    /\ UNCHANGED <<now, last_send_time, min_press_interval_ms, automation_enabled,
                   priority_order, keybinds, slots, has_listener, sent_times, call>>
    /\ UNCHANGED other_vars

\* One frame's call of key_sender.evaluate_and_send with the queue snapshot and
\* on_queued_sent = queue_listener.clear_queue.  The foreground window is read
\* twice (window_ok, then window_recheck in the loop) and may change in between;
\* without a queue entry the first read is never used and is not distinguished.
Tick ==
    /\ call = <<>>
    /\ \E window_recheck \in BOOLEAN, send_ok \in BOOLEAN :
       \E window_ok \in (IF queue = <<>> THEN {window_recheck} ELSE BOOLEAN) :
          LET in  == CallInputs(window_ok, window_recheck, send_ok)
              out == EvaluateAndSend(in)
          IN  /\ last_send_time' = out.last_send_time
              /\ queue' = IF out.callbacks > 0 THEN <<>> ELSE queue
              /\ sent_times' =
                    IF out.result # <<>> /\ out.result[1].action = "sent"
                    THEN sent_times \cup {in.now} ELSE sent_times
              /\ call' = <<[in |-> in, out |-> out, sent_before |-> sent_times]>>
    /\ UNCHANGED <<now, min_press_interval_ms, automation_enabled, priority_order,
                   keybinds, slots, has_listener>>
    /\ UNCHANGED other_vars

\* The frame handler emits the result (if any) and the frame ends.
Return ==
    /\ call # <<>>
    /\ call' = <<>>
    /\ UNCHANGED <<now, last_send_time, min_press_interval_ms, automation_enabled,
                   priority_order, keybinds, slots, has_listener, queue, sent_times>>
    /\ UNCHANGED other_vars

Next ==
    \/ Advance
    \/ AnalyzeFrame
    \/ ToggleAutomation
    \/ Enqueue
    \/ QueueTimeout
    \/ Tick
    \/ Return

NextPriority ==
    \/ Advance
    \/ AnalyzeFrame
    \/ ToggleAutomation
    \/ SetPriorityOrder
    \/ SetKeybinds
    \/ Tick
    \/ Return

\* The gate fed by the analyzer and the spell queue.
Spec == Init /\ [][Next]_vars

\* The gate fed by the analyzer alone, under every priority order and keybind list.
SpecPriority == InitPriority /\ [][NextPriority]_vars


(* ----------------------- vocabulary of the claims --------------------- *)

\* A call has returned and its record is at hand.
Called == call # <<>>

CallIn == call[1].in

CallOut == call[1].out

\* The call returned a dict with action "sent".
ReturnedSent == CallOut.result # <<>> /\ CallOut.result[1].action = "sent"

\* The call returned a dict with action "sent" and queued true.
ReturnedQueuedSent == ReturnedSent /\ CallOut.result[1].queued

\* The keys the backend accepted during the call.
KeysSent == IF CallIn.send_ok THEN CallOut.sends ELSE <<>>

SetMin(S) == CHOOSE x \in S : \A y \in S : x <= y

NonBlank(s) == \E k \in 1 .. Len(s) : s[k] # " "

\* s without its leading and trailing blanks.
Trim(s) ==
    IF ~NonBlank(s) THEN <<>>
    ELSE LET ks == {k \in 1 .. Len(s) : s[k] # " "}
         IN  SubSeq(s, SetMin(ks), SetMax(ks))

\* now - last_send_time has reached the configured (or default) interval.
IntervalElapsed ==
    CallIn.now - CallIn.last_send_time >=
        (IF CallIn.min_press_interval_ms = 0 THEN DefaultMinPressIntervalMs
         ELSE CallIn.min_press_interval_ms)

\* Slot i is present in the call's ActionBarState and READY.
ReadyInState(i) ==
    \E k \in 1 .. Len(CallIn.state) :
        CallIn.state[k].index = i /\ CallIn.state[k].state = "READY"

\* The item at position p of the priority list qualifies: its slot is READY and
\* has a non-blank keybind.
Qualifies(p) ==
    LET i == CallIn.priority_order[p]
    IN  /\ ReadyInState(i)
        /\ i + 1 <= Len(CallIn.keybinds)
        /\ NonBlank(CallIn.keybinds[i + 1])

\* Positions of the first qualifying item (empty if none qualifies).
FirstQualifying ==
    {p \in 1 .. Len(CallIn.priority_order) :
        Qualifies(p) /\ \A r \in 1 .. (p - 1) : ~Qualifies(r)}

CandidateSlot(p) == CallIn.priority_order[p]

CandidateKey(p) == Trim(CallIn.keybinds[CallIn.priority_order[p] + 1])

QueuedEntry == CallIn.queued_override[1]

(* ------------------------------- claims ------------------------------- *)

\* C1: any two calls that both return action "sent" (queued or priority) have
\* timestamps at least min_press_interval_ms apart: a call that returns "sent"
\* is at least that far from every earlier call that returned "sent".
C1_MinInterval ==
    (Called /\ ReturnedSent) =>
        \A t \in call[1].sent_before :
            CallOut.result[1].timestamp[1] - t >= CallIn.min_press_interval_ms

\* C1 witness: a queued send that follows an earlier send under a 75 ms interval.
C1_Witness ==
    /\ Called /\ ReturnedQueuedSent
    /\ call[1].sent_before # {}
    /\ CallIn.min_press_interval_ms = 75

\* C2: one call hands at most one key to keyboard.send.
C2_AtMostOneKeypress == Called => Len(CallOut.sends) <= 1

\* C2 witness: a queued key is sent while the priority list has a qualifying item.
C2_Witness ==
    /\ Called /\ ReturnedQueuedSent
    /\ FirstQualifying # {}
    /\ CallOut.sends = <<CallOut.result[1].keybind>>

\* C3: with automation_enabled false the call returns None, sends no key, does
\* not invoke on_queued_sent and leaves last_send_time unchanged.
C3_DisabledAutomation ==
    (Called /\ ~CallIn.automation_enabled) =>
        /\ CallOut.result = <<>>
        /\ CallOut.sends = <<>>
        /\ CallOut.callbacks = 0
        /\ last_send_time = CallIn.last_send_time
        /\ queue = CallIn.queued_override

\* C3 witness: a disabled call in which everything else would allow a send.
C3_Witness ==
    /\ Called /\ ~CallIn.automation_enabled
    /\ CallIn.queued_override # <<>>
    /\ QueuedEntry.source = "whitelist" /\ NonBlank(QueuedEntry.key)
    /\ IntervalElapsed /\ CallIn.window_ok /\ CallIn.window_recheck /\ CallIn.send_ok
    /\ FirstQualifying # {}

\* C4: with automation enabled, no queue entry, the interval elapsed, the window
\* focused and the send succeeding, the key sent is the (stripped) keybind of the
\* first item of priority_order whose slot is READY and has a non-blank keybind;
\* if no item qualifies nothing is sent and None is returned.
C4_FirstEligibleWins ==
    (/\ Called /\ CallIn.automation_enabled /\ CallIn.queued_override = <<>>
     /\ IntervalElapsed /\ CallIn.window_recheck /\ CallIn.send_ok) =>
        /\ \A p \in FirstQualifying :
              /\ CallOut.sends = <<CandidateKey(p)>>
              /\ CallOut.result =
                    <<Result(CandidateKey(p), "sent", "", <<CallIn.now>>,
                             <<CandidateSlot(p)>>, FALSE)>>
        /\ FirstQualifying = {} => (CallOut.sends = <<>> /\ CallOut.result = <<>>)

\* C4 witness: the first item is READY with a blank keybind and is skipped; the
\* second item's keybind is sent.
C4_Witness ==
    /\ Called /\ CallIn.automation_enabled /\ CallIn.queued_override = <<>>
    /\ ReturnedSent
    /\ Len(CallIn.priority_order) = 2
    /\ ReadyInState(CallIn.priority_order[1])
    /\ FirstQualifying = {2}

\* C5 as stated: a whitelist entry with a non-empty key, interval elapsed and
\* window focused: the queued key is the one key handed to the backend.
C5_AsStated ==
    (/\ Called /\ CallIn.automation_enabled /\ CallIn.queued_override # <<>>
     /\ QueuedEntry.source = "whitelist" /\ QueuedEntry.key # <<>>
     /\ IntervalElapsed /\ CallIn.window_ok) =>
        CallOut.sends = <<Trim(QueuedEntry.key)>>

\* C5 amended: a whitelist entry whose key is non-blank (non-empty after
\* stripping), interval elapsed and window focused: the stripped queued key is
\* the one key handed to the backend, whatever the slots and the priority list
\* are, and when the backend accepts it the call returns it as sent, queued.
C5_WhitelistPrecedence ==
    (/\ Called /\ CallIn.automation_enabled /\ CallIn.queued_override # <<>>
     /\ QueuedEntry.source = "whitelist" /\ NonBlank(QueuedEntry.key)
     /\ IntervalElapsed /\ CallIn.window_ok) =>
        /\ CallOut.sends = <<Trim(QueuedEntry.key)>>
        /\ CallIn.send_ok =>
              CallOut.result =
                  <<Result(Trim(QueuedEntry.key), "sent", "", <<CallIn.now>>,
                           <<>>, TRUE)>>

\* C5 witness: the whitelist key is sent although no slot is READY and the
\* priority list is not empty.
C5_Witness ==
    /\ Called /\ ReturnedQueuedSent
    /\ QueuedEntry.source = "whitelist"
    /\ \A i \in SlotIndices : ~ReadyInState(i)
    /\ CallIn.priority_order # <<>>

\* C6: a tracked entry's key is handed to the backend only if slot_index is
\* given and names a slot of the state that is READY, and interval and window
\* permit; otherwise nothing is sent.
C6_TrackedNeedsReadySlot ==
    (/\ Called /\ CallIn.queued_override # <<>>
     /\ QueuedEntry.source = "tracked"
     /\ CallOut.sends # <<>>) =>
        /\ QueuedEntry.slot_index # <<>>
        /\ ReadyInState(QueuedEntry.slot_index[1])
        /\ IntervalElapsed /\ CallIn.window_ok
        /\ CallOut.sends = <<Trim(QueuedEntry.key)>>

\* C6 witness: a tracked key is sent for its READY slot.
C6_Witness ==
    /\ Called /\ ReturnedQueuedSent
    /\ QueuedEntry.source = "tracked"
    /\ CallOut.result[1].slot_index = QueuedEntry.slot_index

\* C7 as stated: if the supplied queue entry is not sent by the call, the call
\* returns None, sends no key, does not invoke on_queued_sent, and the entry
\* stays in the queue.
C7_AsStated ==
    (Called /\ CallIn.queued_override # <<>> /\ ~ReturnedQueuedSent) =>
        /\ CallOut.result = <<>>
        /\ KeysSent = <<>>
        /\ CallOut.callbacks = 0
        /\ queue = CallIn.queued_override

\* C8: on_queued_sent is invoked exactly once in a call that returns the queued
\* key as sent, and not at all in any other call.
C8_CallbackOncePerConsumedEntry ==
    Called =>
        /\ CallOut.callbacks = (IF ReturnedQueuedSent THEN 1 ELSE 0)
        /\ ReturnedQueuedSent => (CallIn.send_ok /\ queue = <<>>)
        /\ ~ReturnedQueuedSent => queue = CallIn.queued_override

\* C8 witness: a tracked entry is consumed and the callback has run once.
C8_Witness ==
    /\ Called /\ ReturnedQueuedSent
    /\ QueuedEntry.source = "tracked"
    /\ CallOut.callbacks = 1
    /\ queue = <<>>

\* C9: when the priority list yields a candidate and the window is not focused,
\* the call returns blocked/window with the candidate's keybind and slot_index,
\* sends no key and leaves last_send_time unchanged.
C9_WindowBlock ==
    (/\ Called /\ CallIn.automation_enabled /\ CallIn.queued_override = <<>>
     /\ IntervalElapsed /\ ~CallIn.window_recheck) =>
        \A p \in FirstQualifying :
            /\ CallOut.result =
                  <<Result(CandidateKey(p), "blocked", "window", <<>>,
                           <<CandidateSlot(p)>>, FALSE)>>
            /\ CallOut.sends = <<>>
            /\ last_send_time = CallIn.last_send_time

\* C9 witness: a blocked call after an earlier send, so that last_send_time
\* differs from the clock.
C9_Witness ==
    /\ Called /\ CallOut.result # <<>>
    /\ CallOut.result[1].action = "blocked"
    /\ CallIn.last_send_time > 0
    /\ CallIn.last_send_time < CallIn.now

\* C10: last_send_time changes only in a call that returns "sent", which sets
\* it to the call's timestamp; a call leaves the state, the priority order and
\* the keybind list as they were.
C10_GateStateFrame ==
    [][ /\ (last_send_time' # last_send_time) =>
              /\ call = <<>> /\ call' # <<>>
              /\ call'[1].out.result # <<>>
              /\ call'[1].out.result[1].action = "sent"
              /\ call'[1].out.result[1].timestamp = <<last_send_time'>>
        /\ (call = <<>> /\ call' # <<>>) =>
              /\ (/\ call'[1].out.result # <<>>
                  /\ call'[1].out.result[1].action = "sent") =>
                     last_send_time' = call'[1].in.now
              /\ slots' = slots
              /\ priority_order' = priority_order
              /\ keybinds' = keybinds ]_vars

\* C10 witness: the backend raised on a priority send some time after an
\* earlier send, and last_send_time still holds the earlier time.
C10_Witness ==
    /\ Called /\ CallOut.result = <<>>
    /\ CallOut.sends # <<>> /\ ~CallIn.send_ok
    /\ CallIn.queued_override = <<>>
    /\ CallIn.last_send_time > 0
    /\ last_send_time = CallIn.last_send_time
    /\ last_send_time < CallIn.now

\* C11 as stated: when keyboard.send raises in a call, the call returns a
\* result other than the None of a call with nothing to send, and the send was
\* attempted once.
C11_AsStated ==
    (Called /\ CallOut.sends # <<>> /\ ~CallIn.send_ok) =>
        /\ Len(CallOut.sends) = 1
        /\ CallOut.result # <<>>

(* ------------------- the gate and the cast detector ------------------- *)

\* The cast detector reports a cast in flight, predicted to end one step on.
CastStart ==
    /\ call = <<>>
    /\ cast_ends_at = <<>>
    /\ cast_ends_at' = <<now + ClockStep>>
    /\ UNCHANGED <<gate_vars, allow_cast_while_casting>>
    /\ UNCHANGED OutsideCast

\* The cast detector reports the cast over.
CastFinish ==
    /\ call = <<>>
    /\ cast_ends_at # <<>>
    /\ cast_ends_at' = <<>>
    /\ UNCHANGED <<gate_vars, allow_cast_while_casting>>
    /\ UNCHANGED OutsideCast

\* The settings flip allow_cast_while_casting.
ToggleAllowCast ==
    /\ call = <<>>
    /\ allow_cast_while_casting' = ~allow_cast_while_casting
    /\ UNCHANGED <<gate_vars, cast_ends_at>>
    /\ UNCHANGED OutsideCast

\* A module without a queue listener, next to a cast detector.
InitCast ==
    /\ InitCommon
    /\ OthersIdle
    /\ min_press_interval_ms = 75
    /\ has_listener = FALSE
    /\ \E p \in ConfiguredProfiles :
          priority_order = p.priority_order /\ keybinds = p.keybinds

NextCast ==
    \/ Advance
    \/ AnalyzeFrame
    \/ ToggleAutomation
    \/ CastStart
    \/ CastFinish
    \/ ToggleAllowCast
    \/ Tick
    \/ Return

\* The gate called while the cast detector reports casts.
SpecCast == InitCast /\ [][NextCast]_vars

\* C12 as stated: when the priority list has a candidate, a cast is in flight
\* and allow_cast_while_casting is false, the call sends no key and returns
\* action "blocked" with reason "casting".
C12_AsStated ==
    (/\ Called /\ CallIn.automation_enabled /\ CallIn.queued_override = <<>>
     /\ IntervalElapsed /\ FirstQualifying # {}
     /\ cast_ends_at # <<>> /\ ~allow_cast_while_casting) =>
        /\ CallOut.sends = <<>>
        /\ CallOut.result # <<>>
        /\ CallOut.result[1].action = "blocked"
        /\ CallOut.result[1].reason = "casting"

(* ------------- on_frame and the input hook, interleaved --------------- *)

\* Entries the input hook enqueues in the interleaved runs.
RaceEntries ==
    { [source |-> "whitelist", key |-> <<" ", "q">>, slot_index |-> <<>>],
      [source |-> "tracked",   key |-> <<" ", "q">>, slot_index |-> <<0>>] }

\* QueueListener.get_queue(): the live entry, or None.
GetQueue == queue

\* QueueListener.clear_queue(): takes no argument and drops the live entry.
ClearQueue == <<>>

\* The input hook stores a new entry at any moment, also while a frame is
\* being handled; the newest entry replaces the old one.
HookEnqueue ==
    /\ call = <<>>
    /\ next_id <= MaxEnqueues
    /\ \E e \in RaceEntries : queue' = <<e>>
    /\ queue_id' = next_id
    /\ next_id' = next_id + 1
    /\ UNCHANGED <<now, last_send_time, min_press_interval_ms, automation_enabled,
                   priority_order, keybinds, slots, has_listener, sent_times, call>>
    /\ UNCHANGED <<frame_pc, queued_snapshot, queued_id, sent_ids, cleared_unsent>>
    /\ UNCHANGED OutsideRace

\* on_frame: queued = self._queue_listener.get_queue()
FrameSnapshot ==
    /\ call = <<>>
    /\ frame_pc = "idle"
    /\ frame_pc' = "snapshotted"
    /\ queued_snapshot' = GetQueue
    /\ queued_id' = queue_id
    /\ UNCHANGED <<gate_vars, queue_id, next_id, sent_ids, cleared_unsent>>
    /\ UNCHANGED OutsideRace

\* on_frame: key_sender.evaluate_and_send(..., queued_override=queued,
\* on_queued_sent=self._queue_listener.clear_queue)
FrameEvaluate ==
    /\ call = <<>>
    /\ frame_pc = "snapshotted"
    /\ \E window_ok \in BOOLEAN, send_ok \in BOOLEAN :
          LET in  == [CallInputs(window_ok, window_ok, send_ok)
                         EXCEPT !.queued_override = queued_snapshot]
              out == EvaluateAndSend(in)
              consumed == /\ out.result # <<>>
                          /\ out.result[1].action = "sent"
                          /\ out.result[1].queued
          IN  /\ last_send_time' = out.last_send_time
              /\ queue' = IF out.callbacks > 0 THEN ClearQueue ELSE queue
              /\ queue_id' = IF out.callbacks > 0 THEN 0 ELSE queue_id
              /\ cleared_unsent' =
                    IF out.callbacks > 0 /\ queue_id # 0 /\ queue_id # queued_id
                    THEN cleared_unsent \cup {queue_id} ELSE cleared_unsent
              /\ sent_ids' =
                    IF consumed THEN Append(sent_ids, queued_id) ELSE sent_ids
              /\ sent_times' =
                    IF out.result # <<>> /\ out.result[1].action = "sent"
                    THEN sent_times \cup {in.now} ELSE sent_times
              /\ call' = <<[in |-> in, out |-> out, sent_before |-> sent_times]>>
    /\ frame_pc' = "idle"
    /\ queued_snapshot' = <<>>
    /\ queued_id' = 0
    /\ UNCHANGED <<now, min_press_interval_ms, automation_enabled, priority_order,
                   keybinds, slots, has_listener, next_id>>
    /\ UNCHANGED OutsideRace

\* A module with a queue listener whose input hook runs beside on_frame.
InitRace ==
    /\ InitCommon
    /\ OthersIdle
    /\ min_press_interval_ms = 75
    /\ has_listener = TRUE
    /\ priority_order = <<0>>
    /\ keybinds = << <<"1">> >>

NextRace ==
    \/ Advance
    \/ AnalyzeFrame
    \/ ToggleAutomation
    \/ HookEnqueue
    \/ FrameSnapshot
    \/ FrameEvaluate
    \/ Return

\* on_frame's get_queue / evaluate_and_send / clear_queue beside the input hook.
SpecRace == InitRace /\ [][NextRace]_vars

\* C13 as stated: every entry is sent at most once, and no entry that replaced
\* the snapshotted one during a frame is cleared unsent by that frame's
\* on_queued_sent.
C13_AsStated ==
    /\ \A i, j \in 1 .. Len(sent_ids) : sent_ids[i] = sent_ids[j] => i = j
    /\ cleared_unsent = {}

(* ------------- Calibration against a running analysis ----------------- *)

\* calibrate_all_baselines on the GUI thread enters calibrate_baselines.
CalibrateStart ==
    /\ call = <<>>
    /\ calib_pc = 0
    /\ calib_gen < MaxCalibrations
    /\ calib_gen' = calib_gen + 1
    /\ calib_pc' = 1
    /\ UNCHANGED <<baseline_gen, analyze_pc, seen_gen>>
    /\ UNCHANGED <<gate_vars, OutsideCalib>>

\* One iteration of calibrate_baselines' loop: the slot's entry of the
\* table is overwritten in place.
CalibrateStep ==
    /\ call = <<>>
    /\ calib_pc \in 1 .. NumSlots
    /\ baseline_gen' = [baseline_gen EXCEPT ![calib_pc - 1] = calib_gen]
    /\ calib_pc' = IF calib_pc < NumSlots THEN calib_pc + 1 ELSE 0
    /\ UNCHANGED <<calib_gen, analyze_pc, seen_gen>>
    /\ UNCHANGED <<gate_vars, OutsideCalib>>

\* The capture thread enters analyze_frame for a new frame.
AnalyzeStart ==
    /\ call = <<>>
    /\ analyze_pc = 0
    /\ analyze_pc' = 1
    /\ seen_gen' = <<>>
    /\ UNCHANGED <<baseline_gen, calib_pc, calib_gen>>
    /\ UNCHANGED <<gate_vars, OutsideCalib>>

\* One iteration of analyze_frame's loop: the slot's baseline is read from
\* the table as it is now.
AnalyzeStep ==
    /\ call = <<>>
    /\ analyze_pc \in 1 .. NumSlots
    /\ seen_gen' = Append(seen_gen, baseline_gen[analyze_pc - 1])
    /\ analyze_pc' = IF analyze_pc < NumSlots THEN analyze_pc + 1 ELSE 0
    /\ UNCHANGED <<baseline_gen, calib_pc, calib_gen>>
    /\ UNCHANGED <<gate_vars, OutsideCalib>>

InitCalib ==
    /\ InitCommon
    /\ OthersIdle
    /\ min_press_interval_ms = 75
    /\ has_listener = FALSE
    /\ priority_order = <<>>
    /\ keybinds = <<>>

NextCalib ==
    \/ CalibrateStart
    \/ CalibrateStep
    \/ AnalyzeStart
    \/ AnalyzeStep

SpecCalib == InitCalib /\ [][NextCalib]_vars

\* A frame whose every slot has been classified.
FrameClassified == analyze_pc = 0 /\ Len(seen_gen) = NumSlots

\* C14: with calibrate_baselines running beside analyze_frame, every frame
\* classifies all of its slots against one baseline table, entirely the old
\* one or entirely the new one, never a mix.
C14_AsStated ==
    FrameClassified =>
        \A i, j \in 1 .. NumSlots : seen_gen[i] = seen_gen[j]

(* ------------------------- The capture worker ------------------------- *)

\* Faulty variant: process_frame without its per-module try, where a
\* raising on_frame leaves the loop over the modules.
AfterOnFrameUnguarded(idx, raised) == IF raised THEN NumModules + 1 ELSE idx + 1

\* process_frame: where the loop over _load_order goes after module idx,
\* whether on_frame raised (logged by the except clause) or returned.
AfterOnFrame(idx, raised) == idx + 1

\* run: where an exception raised inside the tick lands: the loop's except
\* clause logs it and falls through to the sleep.
AfterTickError == "sleep"

\* The modules process_frame calls on_frame on, in load order.
RECURSIVE EnabledFrom(_)
EnabledFrom(k) ==
    IF k > NumModules THEN <<>>
    ELSE (IF module_enabled[k] THEN <<k>> ELSE <<>>) \o EnabledFrom(k + 1)

\* `while self._running`: a new tick starts, or the loop ends.
WorkerLoopTest ==
    /\ worker_pc = "test"
    /\ ticks < MaxTicks
    /\ worker_pc' = IF running THEN "capture" ELSE "stopped"
    /\ prev_raised' = (tick_raised # {})
    /\ tick_raised' = {}
    /\ on_frame_calls' = <<>>
    /\ frame_ok' = FALSE
    /\ module_idx' = 1
    /\ UNCHANGED <<running, module_enabled, ticks>>
    /\ UNCHANGED <<gate_vars, OutsideWorker>>

\* The capture part of the tick, up to grab_region; an exception lands in
\* the loop's except clause and the tick goes to its sleep.
WorkerCapture ==
    /\ worker_pc = "capture"
    /\ \E raised \in BOOLEAN :
        /\ frame_ok' = ~raised
        /\ tick_raised' = IF raised THEN {0} ELSE {}
        /\ worker_pc' = IF raised THEN AfterTickError ELSE "modules"
    /\ UNCHANGED <<running, module_enabled, module_idx, on_frame_calls,
                   prev_raised, ticks>>
    /\ UNCHANGED <<gate_vars, OutsideWorker>>

\* One iteration of process_frame's loop.
WorkerOnFrame ==
    /\ worker_pc = "modules"
    /\ module_idx <= NumModules
    /\ \E raised \in BOOLEAN :
        LET called == module_enabled[module_idx]
            next   == IF called THEN AfterOnFrame(module_idx, raised)
                      ELSE module_idx + 1
        IN  /\ called \/ ~raised
            /\ on_frame_calls' = IF called THEN Append(on_frame_calls, module_idx)
                                 ELSE on_frame_calls
            /\ tick_raised' = IF called /\ raised THEN tick_raised \cup {module_idx}
                              ELSE tick_raised
            /\ module_idx' = next
            /\ worker_pc' = IF next > NumModules THEN "sleep" ELSE "modules"
    /\ UNCHANGED <<running, module_enabled, frame_ok, prev_raised, ticks>>
    /\ UNCHANGED <<gate_vars, OutsideWorker>>

\* msleep at the end of the tick.
WorkerSleep ==
    /\ worker_pc = "sleep"
    /\ worker_pc' = "test"
    /\ ticks' = ticks + 1
    /\ UNCHANGED <<running, module_enabled, module_idx, frame_ok, on_frame_calls,
                   tick_raised, prev_raised>>
    /\ UNCHANGED <<gate_vars, OutsideWorker>>

\* ModuleCaptureWorker.stop, from the GUI thread.
WorkerStop ==
    /\ running
    /\ worker_pc # "stopped"
    /\ running' = FALSE
    /\ UNCHANGED <<worker_pc, module_enabled, module_idx, frame_ok, on_frame_calls,
                   tick_raised, prev_raised, ticks>>
    /\ UNCHANGED <<gate_vars, OutsideWorker>>

InitWorker ==
    /\ InitCommon
    /\ CastIdle /\ RaceIdle /\ CalibIdle /\ AnalyzerIdle /\ PlanIdle /\ BuffIdle /\ GlowIdle /\ SimilarityIdle /\ ManagerIdle /\ ProfileIdle /\ PersistIdle /\ LifecycleIdle /\ OneKeyIdle /\ CropIdle
    /\ min_press_interval_ms = 75
    /\ has_listener = FALSE
    /\ priority_order = <<>>
    /\ keybinds = <<>>
    /\ worker_pc = "test"
    /\ running = TRUE
    /\ module_enabled \in [1 .. NumModules -> BOOLEAN]
    /\ module_idx = 1
    /\ frame_ok = FALSE
    /\ on_frame_calls = <<>>
    /\ tick_raised = {}
    /\ prev_raised = FALSE
    /\ ticks = 0

NextWorker ==
    \/ WorkerLoopTest
    \/ WorkerCapture
    \/ WorkerOnFrame
    \/ WorkerSleep
    \/ WorkerStop

SpecWorker == InitWorker /\ [][NextWorker]_vars

\* C15: when the capture or a module's on_frame raises, the worker loop ends
\* only once stop has been requested, and a tick whose capture returned a
\* frame calls on_frame on every enabled module, whichever of them raised.
C15_TickLoopSurvival ==
    /\ worker_pc = "stopped" => ~running
    /\ (worker_pc = "sleep" /\ frame_ok) => on_frame_calls = EnabledFrom(1)

\* A tick that follows a tick with an exception, in which the first module
\* raised and the remaining ones were still called.
C15_Witness ==
    /\ prev_raised
    /\ worker_pc = "sleep"
    /\ frame_ok
    /\ 1 \in tick_raised
    /\ Len(on_frame_calls) = NumModules

(* --------------------------- The slot analyzer ------------------------ *)

\* Brightness of a crop, and a baseline, in hundredths (0.40, 0.80).
BrightnessLevels == {40, 80}

\* brightness_threshold in hundredths.
ThresholdChoices == {50, 60, 120}

BoxWidths == {1, 7}

BoxHeight == 5

GapChoices == {0, 2}

AnalyzerConfigs ==
    [slot_count : 1 .. NumSlots, slot_gap_pixels : GapChoices, width : BoxWidths,
     height : {BoxHeight}, brightness_threshold : ThresholdChoices]

\* max of two integers, as Python's max(a, b).
Max2(a, b) == IF a >= b THEN a ELSE b

\* Faulty variant: the slot width without its lower clamp.
SlotWidthUnclamped(cfg) ==
    (cfg.width - (cfg.slot_count - 1) * cfg.slot_gap_pixels) \div cfg.slot_count

\* _recompute_slot_layout: slot_w.
SlotWidth(cfg) ==
    Max2(1, (cfg.width - (cfg.slot_count - 1) * cfg.slot_gap_pixels) \div cfg.slot_count)

\* _recompute_slot_layout: the list of SlotConfigs built by the loop.
RecomputeSlotLayout(cfg) ==
    [k \in 1 .. cfg.slot_count |->
        [index    |-> k - 1,
         x_offset |-> (k - 1) * (SlotWidth(cfg) + cfg.slot_gap_pixels),
         y_offset |-> 0,
         width    |-> SlotWidth(cfg),
         height   |-> cfg.height]]

\* Faulty variant: a crop as dark as the scaled baseline counts as cooling down.
ClassifyInclusive(brightness, baseline, threshold) ==
    IF baseline = <<>> THEN "UNKNOWN"
    ELSE IF brightness * 100 <= baseline[1] * threshold THEN "ON_COOLDOWN"
    ELSE "READY"

\* analyze_frame: the state of one slot.  brightness < baseline * threshold,
\* with brightness and baseline in hundredths and threshold in hundredths.
Classify(brightness, baseline, threshold) ==
    IF baseline = <<>> THEN "UNKNOWN"
    ELSE IF brightness * 100 < baseline[1] * threshold THEN "ON_COOLDOWN"
    ELSE "READY"

\* A frame as the analyzer sees it: the mean brightness of each slot's crop.
Frames == [SlotIndices -> BrightnessLevels]

\* SlotAnalyzer.update_config.
UpdateConfig ==
    /\ \E cfg \in AnalyzerConfigs :
        /\ cfg # analyzer_config
        /\ analyzer_config' = cfg
        /\ slot_configs' = RecomputeSlotLayout(cfg)
    /\ analyzer_last' = "update_config"
    /\ UNCHANGED <<baselines, snapshots>>
    /\ UNCHANGED <<gate_vars, OutsideAnalyzer>>

\* SlotAnalyzer.calibrate_baselines, run to completion.
CalibrateBaselines ==
    /\ \E frame \in Frames :
        baselines' =
            [i \in SlotIndices |->
                IF \E k \in 1 .. Len(slot_configs) : slot_configs[k].index = i
                THEN <<frame[i]>> ELSE baselines[i]]
    /\ analyzer_last' = "calibrate_baselines"
    /\ UNCHANGED <<analyzer_config, slot_configs, snapshots>>
    /\ UNCHANGED <<gate_vars, OutsideAnalyzer>>

\* SlotAnalyzer.analyze_frame, run to completion.
AnalyzeFrameSlots ==
    /\ \E frame \in Frames :
        snapshots' =
            [k \in 1 .. Len(slot_configs) |->
                [index      |-> slot_configs[k].index,
                 state      |-> Classify(frame[slot_configs[k].index],
                                         baselines[slot_configs[k].index],
                                         analyzer_config.brightness_threshold),
                 brightness |-> frame[slot_configs[k].index]]]
    /\ analyzer_last' = "analyze_frame"
    /\ UNCHANGED <<analyzer_config, slot_configs, baselines>>
    /\ UNCHANGED <<gate_vars, OutsideAnalyzer>>

InitAnalyzer ==
    /\ InitCommon
    /\ CastIdle /\ RaceIdle /\ CalibIdle /\ WorkerIdle /\ PlanIdle /\ BuffIdle /\ GlowIdle /\ SimilarityIdle /\ ManagerIdle /\ ProfileIdle /\ PersistIdle /\ LifecycleIdle /\ OneKeyIdle /\ CropIdle
    /\ min_press_interval_ms = 75
    /\ has_listener = FALSE
    /\ priority_order = <<>>
    /\ keybinds = <<>>
    /\ analyzer_config \in AnalyzerConfigs
    /\ slot_configs = RecomputeSlotLayout(analyzer_config)
    /\ baselines = [i \in SlotIndices |-> <<>>]
    /\ snapshots = <<>>
    /\ analyzer_last = "__init__"

NextAnalyzer ==
    \/ UpdateConfig
    \/ CalibrateBaselines
    \/ AnalyzeFrameSlots

SpecAnalyzer == InitAnalyzer /\ [][NextAnalyzer]_vars

\* The analysis that has just returned.
Analyzed == analyzer_last = "analyze_frame"

\* The stored baseline of a slot index exists.
HasBaseline(i) == baselines[i] # <<>>

\* brightness < baseline x brightness_threshold, all three in hundredths.
BelowThreshold(snap) ==
    snap.brightness * 100 < baselines[snap.index][1] * analyzer_config.brightness_threshold

\* C16: analyze_frame returns one snapshot per configured slot, in index
\* order; a slot is UNKNOWN if no baseline is stored for its index, otherwise
\* ON_COOLDOWN if and only if brightness < baseline x brightness_threshold,
\* otherwise READY.
C16_ClassificationRule ==
    Analyzed =>
        /\ Len(snapshots) = analyzer_config.slot_count
        /\ \A k \in 1 .. Len(snapshots) :
            /\ snapshots[k].index = k - 1
            /\ ~HasBaseline(k - 1) => snapshots[k].state = "UNKNOWN"
            /\ HasBaseline(k - 1) =>
                /\ snapshots[k].state \in {"ON_COOLDOWN", "READY"}
                /\ snapshots[k].state = "ON_COOLDOWN" <=> BelowThreshold(snapshots[k])

\* A frame of two slots, the first exactly at the scaled baseline (READY),
\* the second without a baseline.
C16_Witness ==
    /\ Analyzed
    /\ Len(snapshots) >= 2
    /\ HasBaseline(0)
    /\ snapshots[1].brightness * 100 = baselines[0][1] * analyzer_config.brightness_threshold
    /\ snapshots[1].state = "READY"
    /\ ~HasBaseline(1)
    /\ snapshots[2].state = "UNKNOWN"

\* C17: a slot with a baseline whose crop is at least as bright as the
\* baseline is never reported ON_COOLDOWN, whatever the baseline and the
\* configured brightness_threshold.
C17_AsStated ==
    Analyzed =>
        \A k \in 1 .. Len(snapshots) :
            (HasBaseline(snapshots[k].index)
                /\ snapshots[k].brightness >= baselines[snapshots[k].index][1])
            => snapshots[k].state # "ON_COOLDOWN"

\* The layout the configuration calls for: n slots of width
\* max(1, floor((total_width - (n-1)*gap) / n)) and the box's height, slot i
\* at x_offset i*(slot_width + gap) and y_offset 0.
LayoutWidth ==
    LET n == analyzer_config.slot_count
        w == (analyzer_config.width - (n - 1) * analyzer_config.slot_gap_pixels) \div n
    IN  IF w < 1 THEN 1 ELSE w

\* C18: after construction and after every update_config the analyzer holds
\* exactly slot_count SlotConfigs, indices 0..n-1, each of the layout width
\* and the box's height, slot i at x_offset i*(slot_width + gap), y_offset 0,
\* all computed from the current configuration.
C18_SlotLayout ==
    /\ Len(slot_configs) = analyzer_config.slot_count
    /\ \A k \in 1 .. Len(slot_configs) :
        /\ slot_configs[k].index = k - 1
        /\ slot_configs[k].width = LayoutWidth
        /\ slot_configs[k].height = analyzer_config.height
        /\ slot_configs[k].x_offset = (k - 1) * (LayoutWidth + analyzer_config.slot_gap_pixels)
        /\ slot_configs[k].y_offset = 0

\* update_config has replaced a layout: the new configuration's box is
\* narrower than its gaps, so the width is clamped to 1.
C18_Witness ==
    /\ analyzer_last = "update_config"
    /\ analyzer_config.slot_count >= 2
    /\ analyzer_config.width < (analyzer_config.slot_count - 1) * analyzer_config.slot_gap_pixels
    /\ slot_configs[2].x_offset = 1 + analyzer_config.slot_gap_pixels

(* --------------------------- The capture plan ------------------------- *)

ActionBoxes == [left : {-1, 1, 2, 3}, top : {1}, width : {2}, height : {2}]

CastRegions ==
    [enabled : BOOLEAN, left : {-1, 2}, top : {0}, width : {1, 3}, height : {2}]

BuffRois == [enabled : BOOLEAN, left : {0, 3}, top : {-1}, width : {2}, height : {1, 3}]

BuffRoiLists == UNION {[1 .. n -> BuffRois] : n \in 0 .. MaxBuffRois}

CaptureConfigs ==
    [bounding_box : ActionBoxes, cast_bar_region : CastRegions, buff_rois : BuffRoiLists]

MonitorSizes == [width : {4, 8}, height : {6}]

\* min of two integers, as Python's min(a, b).
Min2(a, b) == IF a <= b THEN a ELSE b

\* Faulty variant: an enabled ROI enlarges the rectangle whatever its size.
RoiCountsAnySize(roi) == roi.enabled

\* An ROI enlarges the rectangle: enabled, and wider and higher than 1.
RoiCounts(roi) == roi.enabled /\ roi.width > 1 /\ roi.height > 1

\* The running rectangle after one ROI, whose offsets are relative to the
\* action bar's top-left corner.
Expand(acc, action_bbox, roi) ==
    IF RoiCounts(roi)
    THEN LET roi_left == action_bbox.left + roi.left
             roi_top  == action_bbox.top + roi.top
         IN  [left   |-> Min2(acc.left, roi_left),
              top    |-> Min2(acc.top, roi_top),
              right  |-> Max2(acc.right, roi_left + roi.width),
              bottom |-> Max2(acc.bottom, roi_top + roi.height)]
    ELSE acc

\* The loop over buff_rois.
RECURSIVE ExpandAll(_, _, _)
ExpandAll(acc, action_bbox, rois) ==
    IF rois = <<>> THEN acc
    ELSE ExpandAll(Expand(acc, action_bbox, Head(rois)), action_bbox, Tail(rois))

\* The clamp to the monitor and the returned pair, with the inputs and the
\* function that computed it.
ClampedPlan(cfg, mon, r, planner) ==
    LET left   == Max2(0, Min2(r.left, mon.width - 1))
        top    == Max2(0, Min2(r.top, mon.height - 1))
        right  == Max2(left + 1, Min2(r.right, mon.width))
        bottom == Max2(top + 1, Min2(r.bottom, mon.height))
    IN  [planner       |-> planner,
         config        |-> cfg,
         monitor       |-> mon,
         capture_bbox  |-> [top |-> top, left |-> left,
                            width |-> Max2(1, right - left),
                            height |-> Max2(1, bottom - top)],
         action_origin |-> <<cfg.bounding_box.left - left, cfg.bounding_box.top - top>>]

\* _capture_plan_from_core.
CapturePlanFromCore(cfg, mon) ==
    LET action_bbox == cfg.bounding_box
        box == [left   |-> action_bbox.left,
                top    |-> action_bbox.top,
                right  |-> action_bbox.left + action_bbox.width,
                bottom |-> action_bbox.top + action_bbox.height]
        with_cast  == Expand(box, action_bbox, cfg.cast_bar_region)
        with_buffs == ExpandAll(with_cast, action_bbox, cfg.buff_rois)
    IN  ClampedPlan(cfg, mon, with_buffs, "_capture_plan_from_core")

\* CaptureWorker._capture_plan: the same computation on the worker's own
\* configuration.
CapturePlan(cfg, mon) ==
    LET action_bbox == cfg.bounding_box
        box == [left   |-> action_bbox.left,
                top    |-> action_bbox.top,
                right  |-> action_bbox.left + action_bbox.width,
                bottom |-> action_bbox.top + action_bbox.height]
        with_cast  == Expand(box, action_bbox, cfg.cast_bar_region)
        with_buffs == ExpandAll(with_cast, action_bbox, cfg.buff_rois)
    IN  ClampedPlan(cfg, mon, with_buffs, "_capture_plan")

\* The module capture worker plans a tick's capture.
PlanFromCore ==
    /\ capture_plan' = <<CapturePlanFromCore(capture_config, monitor_size)>>
    /\ UNCHANGED <<capture_config, monitor_size>>
    /\ UNCHANGED <<gate_vars, OutsidePlan>>

\* The capture worker plans a tick's capture.
PlanFromWorker ==
    /\ capture_plan' = <<CapturePlan(capture_config, monitor_size)>>
    /\ UNCHANGED <<capture_config, monitor_size>>
    /\ UNCHANGED <<gate_vars, OutsidePlan>>

\* The user moves the action bar's bounding box.
MoveActionBox ==
    /\ \E box \in ActionBoxes :
        /\ box # capture_config.bounding_box
        /\ capture_config' = [capture_config EXCEPT !.bounding_box = box]
    /\ UNCHANGED <<monitor_size, capture_plan>>
    /\ UNCHANGED <<gate_vars, OutsidePlan>>

InitPlan ==
    /\ InitCommon
    /\ CastIdle /\ RaceIdle /\ CalibIdle /\ WorkerIdle /\ AnalyzerIdle /\ BuffIdle /\ GlowIdle /\ SimilarityIdle /\ ManagerIdle /\ ProfileIdle /\ PersistIdle /\ LifecycleIdle /\ OneKeyIdle /\ CropIdle
    /\ min_press_interval_ms = 75
    /\ has_listener = FALSE
    /\ priority_order = <<>>
    /\ keybinds = <<>>
    /\ capture_config \in CaptureConfigs
    /\ monitor_size \in MonitorSizes
    /\ capture_plan = <<>>

NextPlan ==
    \/ PlanFromCore
    \/ PlanFromWorker
    \/ MoveActionBox

SpecPlan == InitPlan /\ [][NextPlan]_vars

\* The rectangles the claim unions: the action bar, the cast-bar ROI if
\* enabled and larger than 1x1, every enabled buff ROI larger than 1x1; ROI
\* offsets are relative to the action bar's top-left corner.
Absolute(box, roi) ==
    [left   |-> box.left + roi.left,
     top    |-> box.top + roi.top,
     right  |-> box.left + roi.left + roi.width,
     bottom |-> box.top + roi.top + roi.height]

Larger(roi) == roi.width > 1 /\ roi.height > 1

Regions(cfg) ==
    {Absolute(cfg.bounding_box, [left |-> 0, top |-> 0,
                                 width |-> cfg.bounding_box.width,
                                 height |-> cfg.bounding_box.height])}
    \cup {Absolute(cfg.bounding_box, cfg.cast_bar_region) : x \in
            {y \in {0} : cfg.cast_bar_region.enabled /\ Larger(cfg.cast_bar_region)}}
    \cup {Absolute(cfg.bounding_box, cfg.buff_rois[k]) : k \in
            {j \in 1 .. Len(cfg.buff_rois) :
                cfg.buff_rois[j].enabled /\ Larger(cfg.buff_rois[j])}}

Inside(r, mon) ==
    /\ 0 <= r.left /\ r.right <= mon.width
    /\ 0 <= r.top /\ r.bottom <= mon.height

\* The plan returned last.
Planned == capture_plan # <<>>

Plan == capture_plan[1]

\* C19: when all regions lie inside the monitor, the planned rectangle is
\* exactly the bounding union of the action bar, the cast-bar ROI (enabled
\* and larger than 1x1) and every enabled buff ROI larger than 1x1; disabled
\* or small ROIs do not enlarge it; action_origin is the action bar's
\* top-left minus the rectangle's top-left.
C19_MinimalCoveringRectangle ==
    (Planned /\ \A r \in Regions(Plan.config) : Inside(r, Plan.monitor)) =>
        LET rs   == Regions(Plan.config)
            l    == SetMin({r.left : r \in rs})
            t    == SetMin({r.top : r \in rs})
            rgt  == SetMax({r.right : r \in rs})
            bot  == SetMax({r.bottom : r \in rs})
        IN  /\ Plan.capture_bbox = [top |-> t, left |-> l, width |-> rgt - l,
                                    height |-> bot - t]
            /\ Plan.action_origin =
                   <<Plan.config.bounding_box.left - l, Plan.config.bounding_box.top - t>>

\* A plan inside the monitor with a cast-bar ROI that extends the rectangle
\* to the left and an enabled buff ROI of width 1 that does not count.
C19_Witness ==
    /\ Planned
    /\ \A r \in Regions(Plan.config) : Inside(r, Plan.monitor)
    /\ Plan.config.cast_bar_region.enabled
    /\ Larger(Plan.config.cast_bar_region)
    /\ Plan.config.cast_bar_region.left < 0
    /\ Len(Plan.config.buff_rois) >= 1
    /\ Plan.config.buff_rois[1].enabled
    /\ ~Larger(Plan.config.buff_rois[1])
    /\ Plan.action_origin[1] > 0

(* ------------------------- Buff ROI calibration ----------------------- *)

\* str.lower on the characters ROI ids are made of here.
LowerChar(c) == IF c = "A" THEN "a" ELSE IF c = "B" THEN "b" ELSE c

Lower(s) == [k \in 1 .. Len(s) |-> LowerChar(s[k])]

\* str(x or "").strip().lower()
NormalId(s) == Lower(Strip(s))

\* The action bar and the monitor the calibration captures from.
BuffActionBox == [left |-> 1, top |-> 1, width |-> 2, height |-> 2]

BuffMonitor == [width |-> 4, height |-> 6]

\* Stored ROIs: two ids, offsets that keep the ROI on the monitor or push it
\* off its right edge, sizes above and at the 1x1 limit, with or without an
\* earlier template (0).
StoredRois(id) ==
    [id : {id}, left : {0, 3}, top : {0}, width : {1, 2}, height : {2},
     calibration : {<<>>, <<0>>}]

StoredRoiLists ==
    {<<a, b>> : a \in StoredRois(<<" ", "A">>), b \in StoredRois(<<"b">>)}

\* roi_id arguments: empty, blank, matching after strip/lower, unknown.
RoiIdChoices == {<<>>, <<" ">>, <<"A">>, <<"b", " ">>, <<"c">>}

\* What the capture does: raise, or return a frame showing one of two icons.
CaptureOutcomes == {"raises", "icon1", "icon2"}

\* _encode_gray_template of the crop: the icon seen, as a template number.
EncodeGrayTemplate(outcome) == IF outcome = "icon1" THEN 1 ELSE 2

\* next(r for r in rois if id matches), as a position in rois (0: None).
FindRoi(rois, rid) ==
    LET hits == {k \in 1 .. Len(rois) : NormalId(rois[k].id) = rid}
    IN  IF hits = {} THEN 0 ELSE SetMin(hits)

\* The capture rectangle: the action bar united with the ROI, clamped to
\* the monitor.
BuffCaptureBox(roi) ==
    LET al == BuffActionBox.left
        at == BuffActionBox.top
        l0 == Min2(al, al + roi.left)
        t0 == Min2(at, at + roi.top)
        r0 == Max2(al + BuffActionBox.width, al + roi.left + roi.width)
        b0 == Max2(at + BuffActionBox.height, at + roi.top + roi.height)
        left   == Max2(0, Min2(l0, BuffMonitor.width - 1))
        top    == Max2(0, Min2(t0, BuffMonitor.height - 1))
        right  == Max2(left + 1, Min2(r0, BuffMonitor.width))
        bottom == Max2(top + 1, Min2(b0, BuffMonitor.height))
    IN  [left |-> left, top |-> top, width |-> right - left, height |-> bottom - top]

\* Faulty variant: the crop is taken without the bounds test.
OutOfFrameIgnored(roi, box) == FALSE

\* x1 < 0 or y1 < 0 or x2 > frame.shape[1] or y2 > frame.shape[0], for the
\* frame grabbed for `box`.
OutOfFrame(roi, box) ==
    LET x1 == (BuffActionBox.left - box.left) + roi.left
        y1 == (BuffActionBox.top - box.top) + roi.top
    IN  x1 < 0 \/ y1 < 0 \/ x1 + roi.width > box.width \/ y1 + roi.height > box.height

\* What a call returns: (ok, reason), the config it leaves stored, whether a
\* capture was started and the rectangle it grabbed.
BuffResult(ok, reason, rois, started, box) ==
    [ok |-> ok, reason |-> reason, rois |-> rois, capture_started |-> started,
     box |-> box]

\* calibrate_buff_roi_present.
CalibrateBuffRoiPresentResult(rois, roi_id, outcome) ==
    LET rid == NormalId(roi_id)
        pos == FindRoi(rois, rid)
    IN  IF rid = <<>> THEN BuffResult(FALSE, "No ROI id", rois, FALSE, <<>>)
        ELSE IF pos = 0 THEN BuffResult(FALSE, "Buff ROI not found", rois, FALSE, <<>>)
        ELSE LET roi == rois[pos]
                 box == BuffCaptureBox(roi)
             IN  IF roi.width <= 1 \/ roi.height <= 1
                 THEN BuffResult(FALSE, "Buff ROI size must be > 1x1", rois, FALSE, <<>>)
                 ELSE IF outcome = "raises"
                 THEN BuffResult(FALSE, "exception", rois, TRUE, <<>>)
                 ELSE IF OutOfFrame(roi, box)
                 THEN BuffResult(FALSE, "Buff ROI is out of capture frame", rois, TRUE, <<box>>)
                 ELSE BuffResult(TRUE, "present calibrated",
                                 [rois EXCEPT ![pos].calibration =
                                     <<EncodeGrayTemplate(outcome)>>],
                                 TRUE, <<box>>)

\* The user asks for a buff ROI's present template to be calibrated.
CalibrateBuffRoiPresent ==
    /\ \E roi_id \in RoiIdChoices, outcome \in CaptureOutcomes :
        LET res == CalibrateBuffRoiPresentResult(buff_rois, roi_id, outcome)
        IN  /\ buff_rois' = res.rois
            /\ buff_call' = << [roi_id  |-> roi_id,
                                outcome |-> outcome,
                                before  |-> buff_rois,
                                ok      |-> res.ok,
                                reason  |-> res.reason,
                                capture_started |-> res.capture_started,
                                box     |-> res.box] >>
    /\ UNCHANGED <<gate_vars, OutsideBuff>>

InitBuff ==
    /\ InitCommon
    /\ CastIdle /\ RaceIdle /\ CalibIdle /\ WorkerIdle /\ AnalyzerIdle /\ PlanIdle /\ GlowIdle /\ SimilarityIdle /\ ManagerIdle /\ ProfileIdle /\ PersistIdle /\ LifecycleIdle /\ OneKeyIdle /\ CropIdle
    /\ min_press_interval_ms = 75
    /\ has_listener = FALSE
    /\ priority_order = <<>>
    /\ keybinds = <<>>
    /\ buff_rois \in StoredRoiLists
    /\ buff_call = <<>>

NextBuff == CalibrateBuffRoiPresent

SpecBuff == InitBuff /\ [][NextBuff]_vars

\* The call that returned last, and the ROIs of the config it found whose id
\* is the one asked for.
BuffCalled == buff_call # <<>>

BuffCall == buff_call[1]

AskedId == Lower(Trim(BuffCall.roi_id))

Matching == {k \in 1 .. Len(BuffCall.before) : Lower(Trim(BuffCall.before[k].id)) = AskedId}

Target == BuffCall.before[SetMin(Matching)]

\* The target ROI, placed from the action bar's corner, does not fit in the
\* rectangle that was grabbed.
TargetOutsideFrame ==
    /\ BuffCall.box # <<>>
    /\ LET box == BuffCall.box[1]
           l   == BuffActionBox.left + Target.left
           t   == BuffActionBox.top + Target.top
       IN  \/ l < box.left
           \/ t < box.top
           \/ l + Target.width > box.left + box.width
           \/ t + Target.height > box.top + box.height

\* The cases in which the claim says the calibration fails.
BuffFailureCase ==
    \/ AskedId = <<>>
    \/ Matching = {}
    \/ Target.width <= 1 \/ Target.height <= 1
    \/ BuffCall.outcome = "raises"
    \/ TargetOutsideFrame

\* C20: calibrate_buff_roi_present returns (False, reason) and leaves the
\* stored config unchanged when the id is empty, no ROI has it, the ROI is
\* not larger than 1x1 (no capture is started then), the ROI falls outside
\* the captured frame or the capture raises; the config is written only on
\* the success path.
C20_FailedCalibrationNoEffect ==
    BuffCalled =>
        /\ BuffFailureCase =>
            /\ ~BuffCall.ok
            /\ BuffCall.reason # ""
            /\ buff_rois = BuffCall.before
        /\ (AskedId # <<>> /\ Matching # {} /\ (Target.width <= 1 \/ Target.height <= 1))
            => ~BuffCall.capture_started
        /\ buff_rois # BuffCall.before => BuffCall.ok

\* An ROI with an earlier template, pushed off the monitor, is asked for by
\* an id that matches only after strip and lower: the capture ran, the
\* call failed and the template is still the earlier one.
C20_Witness ==
    /\ BuffCalled
    /\ BuffCall.roi_id = <<"A">>
    /\ Matching # {}
    /\ BuffCall.capture_started
    /\ TargetOutsideFrame
    /\ Target.calibration = <<0>>
    /\ buff_rois[1].calibration = <<0>>
    /\ buff_rois[2].calibration = <<1>>

(* --------------------------- Glow hysteresis -------------------------- *)

\* glow_confirm_frames as the settings dialog allows it (1..8), the first three.
GlowConfirmChoices == {1, 2, 3}

\* Faulty variant: the counter survives a tick that does not qualify.
GlowCountAfterSticky(count, qualifies) == IF qualifies THEN count + 1 ELSE count

\* The per-slot confirm counter after a tick.
GlowCountAfter(count, qualifies) == IF qualifies THEN count + 1 ELSE 0

\* The `ready` flag of a tick: the ring qualifies and has done so for
\* glow_confirm_frames consecutive ticks, this one included.
GlowReadyAfter(count, qualifies, confirm) ==
    qualifies /\ GlowCountAfter(count, qualifies) >= confirm

\* One tick of the analyzer: every slot's ring either qualifies or not.
GlowTick ==
    /\ \A i \in SlotIndices : Len(glow_history[i]) < MaxGlowTicks
    /\ \E qualifies \in [SlotIndices -> BOOLEAN] :
        /\ glow_count' =
               [i \in SlotIndices |-> GlowCountAfter(glow_count[i], qualifies[i])]
        /\ glow_ready' =
               [i \in SlotIndices |->
                   GlowReadyAfter(glow_count[i], qualifies[i], glow_confirm_frames)]
        /\ glow_history' =
               [i \in SlotIndices |-> Append(glow_history[i], qualifies[i])]
    /\ UNCHANGED glow_confirm_frames
    /\ UNCHANGED <<gate_vars, OutsideGlow>>

\* on_frame hands the analyzer's flags on: a snapshot without the attribute
\* counts as not ready.
GlowReadyReported(i) == glow_ready[i]

InitGlow ==
    /\ InitCommon
    /\ CastIdle /\ RaceIdle /\ CalibIdle /\ WorkerIdle /\ AnalyzerIdle /\ PlanIdle /\ BuffIdle /\ SimilarityIdle /\ ManagerIdle /\ ProfileIdle /\ PersistIdle /\ LifecycleIdle /\ OneKeyIdle /\ CropIdle
    /\ min_press_interval_ms = 75
    /\ has_listener = FALSE
    /\ priority_order = <<>>
    /\ keybinds = <<>>
    /\ glow_confirm_frames \in GlowConfirmChoices
    /\ glow_count = [i \in SlotIndices |-> 0]
    /\ glow_ready = [i \in SlotIndices |-> FALSE]
    /\ glow_history = [i \in SlotIndices |-> <<>>]

NextGlow == GlowTick

SpecGlow == InitGlow /\ [][NextGlow]_vars

\* The last n ticks of a slot all qualified.
LastQualified(i, n) ==
    /\ Len(glow_history[i]) >= n
    /\ \A k \in (Len(glow_history[i]) - n + 1) .. Len(glow_history[i]) :
        glow_history[i][k]

\* The slot's last tick did not qualify.
LastTickFailed(i) ==
    glow_history[i] # <<>> /\ ~glow_history[i][Len(glow_history[i])]

\* C21: for every slot, glow `ready` is not true before glow_confirm_frames
\* consecutive qualifying ticks have been observed, and the slot's confirm
\* counter is 0 after any single tick that does not qualify.
C21_GlowHysteresis ==
    \A i \in SlotIndices :
        /\ GlowReadyReported(i) => LastQualified(i, glow_confirm_frames)
        /\ LastTickFailed(i) => glow_count[i] = 0

\* A slot that became ready after three confirming ticks that followed a
\* failed one, beside a slot whose counter was reset by the last tick.
C21_Witness ==
    /\ glow_confirm_frames = 3
    /\ glow_history[0] = <<FALSE, TRUE, TRUE, TRUE>>
    /\ GlowReadyReported(0)
    /\ glow_history[1] = <<TRUE, TRUE, TRUE, FALSE>>
    /\ glow_count[1] = 0

(* ------------------------- Template similarity ------------------------ *)

\* Gray levels of a pixel: black, mid, white.
MaxPixel == 2

PixelLevels == 0 .. MaxPixel

GrayBuffers(n) == [1 .. n -> PixelLevels]

RECURSIVE SumSeq(_)
SumSeq(s) == IF s = <<>> THEN 0 ELSE Head(s) + SumSeq(Tail(s))

Abs(x) == IF x < 0 THEN -x ELSE x

\* The zero-mean pixel vector, scaled by the pixel count to stay integral.
ZeroMean(a) == [k \in 1 .. Len(a) |-> Len(a) * a[k] - SumSeq(a)]

Dot(u, v) == SumSeq([k \in 1 .. Len(u) |-> u[k] * v[k]])

\* Faulty variant: a flat buffer, whose variance is zero, scores as
\* uncorrelated.
FlatSimilarityAtLeastZero(a, b, p) == p <= 0

\* The score of a pair with a flat member is at least p hundredths:
\* 1 - mean(|a - b|) / MaxPixel.
FlatSimilarityAtLeast(a, b, p) ==
    LET diff == SumSeq([k \in 1 .. Len(a) |-> Abs(a[k] - b[k])])
    IN  p * Len(a) * MaxPixel <= 100 * (Len(a) * MaxPixel - diff)

\* The normalized correlation of the zero-mean vectors is at least p
\* hundredths: dot / sqrt(|u|^2 |v|^2) >= p / 100, negative scores being 0.
CorrelationAtLeast(a, b, p) ==
    LET u == ZeroMean(a)
        v == ZeroMean(b)
    IN  \/ p <= 0
        \/ /\ Dot(u, v) > 0
           /\ Dot(u, v) * Dot(u, v) * 10000 >= p * p * Dot(u, u) * Dot(v, v)

\* _template_similarity, in hundredths, rounded down.
TemplateSimilarity(a, b) ==
    LET flat == Dot(ZeroMean(a), ZeroMean(a)) = 0 \/ Dot(ZeroMean(b), ZeroMean(b)) = 0
    IN  SetMax({p \in 0 .. 100 :
                   IF flat THEN FlatSimilarityAtLeast(a, b, p)
                   ELSE CorrelationAtLeast(a, b, p)})

\* The buff detector compares an ROI crop with a template.
CompareTemplate ==
    /\ similarity.score = <<>>
    /\ similarity' =
           [similarity EXCEPT
               !.score = <<TemplateSimilarity(similarity.roi, similarity.template)>>]
    /\ UNCHANGED <<gate_vars, OutsideSimilarity>>

\* The next frame's crop of the same ROI arrives.
NextCrop ==
    /\ similarity.score # <<>>
    /\ \E roi \in GrayBuffers(Len(similarity.template)) :
        similarity' = [similarity EXCEPT !.roi = roi, !.score = <<>>]
    /\ UNCHANGED <<gate_vars, OutsideSimilarity>>

InitSimilarity ==
    /\ InitCommon
    /\ CastIdle /\ RaceIdle /\ CalibIdle /\ WorkerIdle /\ AnalyzerIdle /\ PlanIdle /\ BuffIdle /\ GlowIdle /\ ManagerIdle /\ ProfileIdle /\ PersistIdle /\ LifecycleIdle /\ OneKeyIdle /\ CropIdle
    /\ min_press_interval_ms = 75
    /\ has_listener = FALSE
    /\ priority_order = <<>>
    /\ keybinds = <<>>
    /\ \E n \in 1 .. MaxBufferLen :
        \E a \in GrayBuffers(n), b \in GrayBuffers(n) :
            similarity = [roi |-> a, template |-> b, score |-> <<>>]

NextSimilarity ==
    \/ CompareTemplate
    \/ NextCrop

SpecSimilarity == InitSimilarity /\ [][NextSimilarity]_vars

\* A buffer whose pixels are all the same.
Uniform(a) == \A j, k \in 1 .. Len(a) : a[j] = a[k]

ModuleKeys == {"a", "b", "c"}

\* What discover() found: everything, or everything but "c".
DiscoveredChoices == {ModuleKeys, {"a", "b"}}

\* `requires` of a module class: at most one key.
RequiresChoices == {S \in SUBSET ModuleKeys : Cardinality(S) <= 1}

\* `optional` of a module class: only "b" declares one, and it is "a".
OptionalChoices(k) == IF k = "b" THEN {{}, {"a"}} ELSE {{}}

\* load()'s module_keys: the keys in any order, none twice.
ModuleKeyLists ==
    {s \in UNION {[1 .. n -> ModuleKeys] : n \in 0 .. Cardinality(ModuleKeys)} :
        \A i, j \in 1 .. Len(s) : s[i] = s[j] => i = j}

InSeq(x, s) == \E k \in 1 .. Len(s) : s[k] = x

RECURSIVE FilterKeys(_, _)
FilterKeys(s, keep) ==
    IF s = <<>> THEN <<>>
    ELSE (IF Head(s) \in keep THEN <<Head(s)>> ELSE <<>>) \o FilterKeys(Tail(s), keep)

Reverse(s) == [k \in 1 .. Len(s) |-> s[Len(s) + 1 - k]]

\* load: to_load after the "validate requires" loop: keys not discovered,
\* and keys with a requirement that was not discovered, are dropped.
ValidatedKeys(m) ==
    FilterKeys(m.module_keys, {k \in m.discovered : m.requires[k] \subseteq m.discovered})

\* _topological_sort: graph[key], the dependencies that are among keys.
GraphOf(m, keys, key) == {d \in m.requires[key] \cup m.optional[key] : InSeq(d, keys)}

\* _topological_sort: len(graph[key]); deps is a list, so a key named both
\* in requires and in optional counts twice.
InDegreeOf(m, keys, key) ==
    Cardinality({d \in m.requires[key] : InSeq(d, keys)})
        + Cardinality({d \in m.optional[key] : InSeq(d, keys)})

\* The inner loop of Kahn's algorithm, from position i of keys, after n was
\* taken: the queue and the in-degrees it leaves.
RECURSIVE Relax(_, _, _, _, _, _)
Relax(m, keys, i, n, ready_queue, deg) ==
    IF i > Len(keys) THEN [ready_queue |-> ready_queue, deg |-> deg]
    ELSE LET k == keys[i]
         IN  IF n \in GraphOf(m, keys, k)
             THEN Relax(m, keys, i + 1, n,
                        IF deg[k] - 1 = 0 THEN Append(ready_queue, k) ELSE ready_queue,
                        [deg EXCEPT ![k] = deg[k] - 1])
             ELSE Relax(m, keys, i + 1, n, ready_queue, deg)

\* The outer loop of Kahn's algorithm.
RECURSIVE Kahn(_, _, _, _, _)
Kahn(m, keys, ready_queue, result, deg) ==
    IF ready_queue = <<>> THEN result
    ELSE LET r == Relax(m, keys, 1, Head(ready_queue), Tail(ready_queue), deg)
         IN  Kahn(m, keys, r.ready_queue, Append(result, Head(ready_queue)), r.deg)

\* _topological_sort: <<order>>, or <<>> for None.
TopologicalSort(m, keys) ==
    LET in_degree == [k \in ModuleKeys |-> IF InSeq(k, keys) THEN InDegreeOf(m, keys, k) ELSE 0]
        ready_queue  == FilterKeys(keys, {k \in ModuleKeys : in_degree[k] = 0})
        result == Kahn(m, keys, ready_queue, <<>>, in_degree)
    IN  IF Len(result) # Len(keys) THEN <<>> ELSE <<result>>

\* ModuleManager.load; the classes in m.failing raise when instantiated.
Load(m) ==
    LET order == TopologicalSort(m, ValidatedKeys(m))
        load_order == IF order = <<>> THEN <<>>
                      ELSE FilterKeys(order[1], ModuleKeys \ m.failing)
    IN  [m EXCEPT !.phase = "loaded",
                  !.load_order = load_order,
                  !.setup_calls = load_order,
                  !.ready_calls = load_order]

LoadModules ==
    /\ manager.phase = "discovered"
    /\ manager' = Load(manager)
    /\ UNCHANGED <<gate_vars, OutsideManager>>

\* ModuleManager.process_frame with every module enabled.
ManagerProcessFrame ==
    /\ manager.phase = "loaded"
    /\ manager' = [manager EXCEPT !.phase = "running",
                                  !.on_frame_calls = manager.load_order]
    /\ UNCHANGED <<gate_vars, OutsideManager>>

\* ModuleManager.shutdown.
ManagerShutdown ==
    /\ manager.phase \in {"loaded", "running"}
    /\ manager' = [manager EXCEPT !.phase = "shut down",
                                  !.teardown_calls = Reverse(manager.load_order)]
    /\ UNCHANGED <<gate_vars, OutsideManager>>

InitManager ==
    /\ InitCommon
    /\ CastIdle /\ RaceIdle /\ CalibIdle /\ WorkerIdle /\ AnalyzerIdle /\ PlanIdle /\ BuffIdle /\ GlowIdle /\ SimilarityIdle /\ ProfileIdle /\ PersistIdle /\ LifecycleIdle /\ OneKeyIdle /\ CropIdle
    /\ min_press_interval_ms = 75
    /\ has_listener = FALSE
    /\ priority_order = <<>>
    /\ keybinds = <<>>
    /\ \E discovered \in DiscoveredChoices, keys \in ModuleKeyLists,
          requires \in [ModuleKeys -> RequiresChoices],
          optional_b \in OptionalChoices("b"),
          failing \in {{}} \cup {{k} : k \in ModuleKeys} :
        manager = [discovered |-> discovered,
                   requires |-> requires,
                   optional |-> [k \in ModuleKeys |-> IF k = "b" THEN optional_b ELSE {}],
                   module_keys |-> keys, failing |-> failing, phase |-> "discovered",
                   load_order |-> <<>>, setup_calls |-> <<>>, ready_calls |-> <<>>,
                   on_frame_calls |-> <<>>, teardown_calls |-> <<>>]

NextManager ==
    \/ LoadModules
    \/ ManagerProcessFrame
    \/ ManagerShutdown

SpecManager == InitManager /\ [][NextManager]_vars

\* load() has returned.
Loaded == manager.phase # "discovered"

\* Position of a key in the load order (0: absent).
LoadPos(k) ==
    IF InSeq(k, manager.load_order)
    THEN SetMin({i \in 1 .. Len(manager.load_order) : manager.load_order[i] = k})
    ELSE 0

\* r is in the load order, ahead of k.
LoadedBefore(r, k) == LoadPos(r) > 0 /\ LoadPos(r) < LoadPos(k)

\* The keys load() was asked for that name a discovered module.
Asked == manager.discovered \cap {manager.module_keys[i] : i \in 1 .. Len(manager.module_keys)}

\* k depends on d: d is required by k, or optional for k and asked for.
DependsOn(k, d) ==
    d \in manager.requires[k] \/ (d \in manager.optional[k] /\ d \in Asked)

\* A dependency cycle through a module that was asked for: over three keys,
\* a cycle has length one, two or three.
DependencyCycle ==
    \E k \in Asked :
        \/ DependsOn(k, k)
        \/ \E d \in manager.discovered : DependsOn(k, d) /\ DependsOn(d, k)
        \/ \E d, e \in manager.discovered :
              DependsOn(k, d) /\ DependsOn(d, e) /\ DependsOn(e, k)

\* In the load order every module comes after every module it requires and
\* after every optional dependency that is loaded too.
C23_OrderRespectsDependencies ==
    \A k \in ModuleKeys :
        LoadPos(k) > 0 =>
            /\ \A r \in manager.requires[k] : LoadedBefore(r, k)
            /\ \A o \in manager.optional[k] : LoadPos(o) > 0 => LoadedBefore(o, k)

\* setup, ready and on_frame follow the load order, teardown its reverse.
C23_CallsFollowLoadOrder ==
    /\ manager.setup_calls = manager.load_order
    /\ manager.ready_calls = manager.load_order
    /\ manager.phase = "running" => manager.on_frame_calls = manager.load_order
    /\ manager.phase = "shut down" =>
          /\ Len(manager.teardown_calls) = Len(manager.load_order)
          /\ \A i \in 1 .. Len(manager.load_order) :
                manager.teardown_calls[i] =
                    manager.load_order[Len(manager.load_order) + 1 - i]

\* With a dependency cycle nothing is instantiated or set up.
C23_CycleLoadsNothing ==
    DependencyCycle => (manager.load_order = <<>> /\ manager.setup_calls = <<>>)

\* C23: in the load order produced by load() every module appears after
\* every module it requires and after every optional dependency that is also
\* loaded; setup, ready and on_frame are called in that order and teardown in
\* the reverse order; with a dependency cycle, load() instantiates and sets
\* up no module.
C23_AsStated ==
    Loaded =>
        /\ C23_OrderRespectsDependencies
        /\ C23_CallsFollowLoadOrder
        /\ C23_CycleLoadsNothing

\* C24: every module that was instantiated and set up has all the modules
\* named in its `requires` instantiated and set up before it.
C24_AsStated ==
    Loaded =>
        \A i \in 1 .. Len(manager.setup_calls) :
            \A r \in manager.requires[manager.setup_calls[i]] :
                \E j \in 1 .. (i - 1) : manager.setup_calls[j] = r

(* ---------------------- The active priority profile ------------------- *)

\* Ids of the configured profiles.
ProfileIds == << <<"A">>, <<"b">> >>

\* profile_id arguments: empty, blank, a known id in another case or padded,
\* an unknown id.
ProfileIdChoices == {<<>>, <<" ">>, <<"a">>, <<"A", " ">>, <<"b">>, <<"c">>}

HotkeyActions == {"toggle", "single_fire"}

\* any(str(p.get("id") or "").strip().lower() == pid for p in profiles)
HasProfile(cfg, pid) ==
    \E k \in 1 .. Len(cfg.priority_profiles) : NormalId(cfg.priority_profiles[k]) = pid

\* set_active_priority_profile: the config it leaves stored.
SetActivePriorityProfileResult(cfg, profile_id) ==
    LET pid == NormalId(profile_id)
    IN  IF pid = <<>> THEN cfg
        ELSE IF ~HasProfile(cfg, pid) THEN cfg
        ELSE [cfg EXCEPT !.active_priority_profile_id = pid]

\* handle_hotkey: the config it leaves stored.
HandleHotkeyResult(cfg, profile_id) ==
    LET pid == Strip(profile_id)
        active_id == NormalId(cfg.active_priority_profile_id)
    IN  IF Lower(pid) # active_id
        THEN [cfg EXCEPT !.active_priority_profile_id = pid]
        ELSE cfg

\* The user picks a profile in the UI.
SetActivePriorityProfile ==
    /\ call = <<>>
    /\ \E profile_id \in ProfileIdChoices :
        /\ profile_config' = SetActivePriorityProfileResult(profile_config, profile_id)
        /\ profile_call' = << [method     |-> "set_active_priority_profile",
                               profile_id |-> profile_id,
                               before     |-> profile_config.active_priority_profile_id] >>
    /\ UNCHANGED <<gate_vars, OutsideProfile>>

\* A registered hotkey fires: the profile it names becomes active, then the
\* rotation is toggled or a single fire is requested (which the key sender
\* here has no method for).
HandleHotkey ==
    /\ call = <<>>
    /\ \E profile_id \in ProfileIdChoices, action \in HotkeyActions :
        /\ profile_config' = HandleHotkeyResult(profile_config, profile_id)
        /\ profile_call' = << [method     |-> "handle_hotkey",
                               profile_id |-> profile_id,
                               before     |-> profile_config.active_priority_profile_id] >>
        /\ automation_enabled' =
               IF action = "toggle" THEN ~automation_enabled ELSE automation_enabled
    /\ UNCHANGED <<now, last_send_time, min_press_interval_ms, priority_order,
                   keybinds, slots, has_listener, queue, sent_times, call>>
    /\ UNCHANGED OutsideProfile

InitProfile ==
    /\ InitCommon
    /\ CastIdle /\ RaceIdle /\ CalibIdle /\ WorkerIdle /\ AnalyzerIdle /\ PlanIdle /\ BuffIdle /\ GlowIdle /\ SimilarityIdle /\ ManagerIdle /\ PersistIdle /\ LifecycleIdle /\ OneKeyIdle /\ CropIdle
    /\ min_press_interval_ms = 75
    /\ has_listener = FALSE
    /\ priority_order = <<>>
    /\ keybinds = <<>>
    /\ \E k \in 1 .. Len(ProfileIds) :
        profile_config = [priority_profiles |-> ProfileIds,
                          active_priority_profile_id |-> ProfileIds[k]]
    /\ profile_call = <<>>

NextProfile ==
    \/ SetActivePriorityProfile
    \/ HandleHotkey

SpecProfile == InitProfile /\ [][NextProfile]_vars

\* The profiles the active id names, case-insensitively.
ActiveProfiles ==
    {k \in 1 .. Len(profile_config.priority_profiles) :
        Lower(Trim(profile_config.priority_profiles[k]))
            = Lower(Trim(profile_config.active_priority_profile_id))}

\* The id of the last call is empty or names no profile.
EmptyOrUnknownId ==
    LET pid == Lower(Trim(profile_call[1].profile_id))
    IN  \/ pid = <<>>
        \/ \A k \in 1 .. Len(profile_config.priority_profiles) :
              Lower(Trim(profile_config.priority_profiles[k])) # pid

\* C25: after any sequence of set_active_priority_profile and handle_hotkey
\* calls the active id names, case-insensitively, exactly one existing
\* profile; a call with an empty or unknown id leaves it unchanged.
C25_AsStated ==
    /\ Cardinality(ActiveProfiles) = 1
    /\ (profile_call # <<>> /\ EmptyOrUnknownId) =>
          profile_config.active_priority_profile_id = profile_call[1].before

(* ------------------------- Baseline persistence ----------------------- *)

\* uint8 values used in baselines.
ByteChoices == {0, 255}

\* ndarray shapes [h, w] used in baselines.
BaselineShapes == {<<1, 1>>, <<1, 2>>, <<2, 1>>}

\* 2-D uint8 arrays: shape and row-major contents.
BaselineArrays ==
    UNION {[shape : {s}, data : [1 .. s[1] * s[2] -> ByteChoices]] : s \in BaselineShapes}

\* dict[int, np.ndarray]
BaselineTables == UNION {[S -> BaselineArrays] : S \in SUBSET SlotIndices}

\* The '=' padding character of base64; characters 0..63 are the alphabet.
B64Pad == 64

\* base64 of one group of up to three bytes.
B64EncodeGroup(g) ==
    LET n == g[1] * 65536
             + (IF Len(g) >= 2 THEN g[2] * 256 ELSE 0)
             + (IF Len(g) >= 3 THEN g[3] ELSE 0)
        c1 == n \div 262144
        c2 == (n \div 4096) % 64
        c3 == (n \div 64) % 64
        c4 == n % 64
    IN  IF Len(g) = 1 THEN <<c1, c2, B64Pad, B64Pad>>
        ELSE IF Len(g) = 2 THEN <<c1, c2, c3, B64Pad>>
        ELSE <<c1, c2, c3, c4>>

RECURSIVE B64Encode(_)
\* base64.b64encode(bytes).decode()
B64Encode(bytes) ==
    IF Len(bytes) = 0 THEN <<>>
    ELSE IF Len(bytes) <= 3 THEN B64EncodeGroup(bytes)
    ELSE B64EncodeGroup(SubSeq(bytes, 1, 3)) \o B64Encode(SubSeq(bytes, 4, Len(bytes)))

\* The bytes of one group of four base64 characters.
B64DecodeGroup(c) ==
    LET v(k) == IF c[k] = B64Pad THEN 0 ELSE c[k]
        n == v(1) * 262144 + v(2) * 4096 + v(3) * 64 + v(4)
        b == <<n \div 65536, (n \div 256) % 256, n % 256>>
        pads == Cardinality({k \in 1 .. 4 : c[k] = B64Pad})
    IN  SubSeq(b, 1, 3 - pads)

RECURSIVE B64Decode(_)
\* base64.b64decode(str)
B64Decode(chars) ==
    IF Len(chars) = 0 THEN <<>>
    ELSE B64DecodeGroup(SubSeq(chars, 1, 4)) \o B64Decode(SubSeq(chars, 5, Len(chars)))

RECURSIVE SortedKeys(_)
\* sorted(baselines.keys()) as a sequence
SortedKeys(S) ==
    IF S = {} THEN <<>>
    ELSE LET m == CHOOSE x \in S : \A y \in S : x <= y
         IN  <<m>> \o SortedKeys(S \ {m})

\* encode_baselines / _encode_baselines
encode_baselines(table) ==
    LET keys == SortedKeys(DOMAIN table)
    IN  [k \in 1 .. Len(keys) |->
            [shape |-> table[keys[k]].shape,
             data  |-> B64Encode(table[keys[k]].data)]]

\* decode_baselines / _decode_baselines
decode_baselines(data) ==
    LET kept == {i \in 0 .. Len(data) - 1 :
                    data[i + 1].shape # <<>> /\ data[i + 1].data # <<>>}
    IN  [i \in kept |->
            [shape |-> data[i + 1].shape,
             data  |-> B64Decode(data[i + 1].data)]]

\* save_baselines: the analyzer's table is written to the config.
SaveBaselines ==
    /\ persisted.slot_baselines = <<>>
    /\ persisted' = [persisted EXCEPT
           !.slot_baselines = <<encode_baselines(persisted.baselines)>>]
    /\ UNCHANGED <<gate_vars, OutsidePersist>>

\* Loading the config: the saved list is decoded and handed to the analyzer.
LoadBaselines ==
    /\ persisted.slot_baselines # <<>>
    /\ persisted.restored = <<>>
    /\ persisted' = [persisted EXCEPT
           !.restored = <<decode_baselines(persisted.slot_baselines[1])>>]
    /\ UNCHANGED <<gate_vars, OutsidePersist>>

InitPersist ==
    /\ InitCommon
    /\ CastIdle /\ RaceIdle /\ CalibIdle /\ WorkerIdle /\ AnalyzerIdle /\ PlanIdle /\ BuffIdle /\ GlowIdle /\ SimilarityIdle /\ ManagerIdle /\ ProfileIdle /\ LifecycleIdle /\ OneKeyIdle /\ CropIdle
    /\ min_press_interval_ms = 75
    /\ has_listener = FALSE
    /\ priority_order = <<>>
    /\ keybinds = <<>>
    /\ \E b \in BaselineTables :
        persisted = [baselines |-> b, slot_baselines |-> <<>>, restored |-> <<>>]

NextPersist ==
    \/ SaveBaselines
    \/ LoadBaselines

SpecPersist == InitPersist /\ [][NextPersist]_vars

\* C26: for every baseline table b, decode_baselines(encode_baselines(b))
\* equals b: each persisted baseline is restored under the slot index it was
\* calibrated for.
C26_AsStated ==
    persisted.restored # <<>> => persisted.restored[1] = persisted.baselines

(* -------------------- Starting and stopping the worker ---------------- *)

\* Clicks on "Start Capture" that are followed.
MaxStarts == 2

\* toggle_capture while not running: worker.start() schedules the thread and
\* returns; is_running[0] = True.
ToggleStart ==
    /\ lifecycle.gui = "stopped_ui"
    /\ lifecycle.starts < MaxStarts
    /\ lifecycle' = [lifecycle EXCEPT !.gui = "capturing", !.thread = "scheduled",
                                      !.starts = @ + 1, !.tick_after_return = FALSE]
    /\ UNCHANGED <<gate_vars, OutsideLifecycle>>

\* The worker thread enters run(): self._running = True.
RunEnter ==
    /\ lifecycle.thread = "scheduled"
    /\ lifecycle' = [lifecycle EXCEPT !.thread = "start_capture", !.running = TRUE]
    /\ UNCHANGED <<gate_vars, OutsideLifecycle>>

\* _start_capture, before the try block: when it raises run() ends there.
RunStartCapture ==
    /\ lifecycle.thread = "start_capture"
    /\ \E raised \in BOOLEAN :
        lifecycle' = IF raised
                     THEN [lifecycle EXCEPT !.thread = "none"]
                     ELSE [lifecycle EXCEPT !.thread = "test", !.capture = "open"]
    /\ UNCHANGED <<gate_vars, OutsideLifecycle>>

\* `while self._running`
RunLoopTest ==
    /\ lifecycle.thread = "test"
    /\ lifecycle' = [lifecycle EXCEPT !.thread = IF lifecycle.running THEN "tick" ELSE "finally"]
    /\ UNCHANGED <<gate_vars, OutsideLifecycle>>

\* One tick of the loop body; an exception is logged.
RunTick ==
    /\ lifecycle.thread = "tick"
    /\ \E raised \in BOOLEAN :
        lifecycle' = [lifecycle EXCEPT
            !.thread = "sleep",
            !.ticks = IF @ < MaxTicks THEN @ + 1 ELSE @,
            !.last_tick_raised = raised,
            !.tick_after_return = @ \/ lifecycle.gui = "stopped_ui"]
    /\ UNCHANGED <<gate_vars, OutsideLifecycle>>

\* msleep(interval)
RunSleep ==
    /\ lifecycle.thread = "sleep"
    /\ lifecycle' = [lifecycle EXCEPT !.thread = "test"]
    /\ UNCHANGED <<gate_vars, OutsideLifecycle>>

\* finally: self._capture.stop(); run() returns and the thread finishes.
RunFinally ==
    /\ lifecycle.thread = "finally"
    /\ lifecycle' = [lifecycle EXCEPT !.thread = "none", !.capture = "stopped"]
    /\ UNCHANGED <<gate_vars, OutsideLifecycle>>

\* toggle_capture while running calls stop(): self._running = False.
StopBegin ==
    /\ lifecycle.gui = "capturing"
    /\ lifecycle' = [lifecycle EXCEPT !.gui = "wait", !.running = FALSE]
    /\ UNCHANGED <<gate_vars, OutsideLifecycle>>

\* stop(): self.wait() returns once the thread has finished; is_running[0] = False.
StopWait ==
    /\ lifecycle.gui = "wait"
    /\ lifecycle.thread = "none"
    /\ lifecycle' = [lifecycle EXCEPT !.gui = "stopped_ui"]
    /\ UNCHANGED <<gate_vars, OutsideLifecycle>>

\* The steps of the worker thread.
RunStep ==
    \/ RunEnter
    \/ RunStartCapture
    \/ RunLoopTest
    \/ RunTick
    \/ RunSleep
    \/ RunFinally

InitLifecycle ==
    /\ InitCommon
    /\ OthersIdle
    /\ min_press_interval_ms = 75
    /\ has_listener = FALSE
    /\ priority_order = <<>>
    /\ keybinds = <<>>

NextLifecycle ==
    \/ ToggleStart
    \/ RunEnter
    \/ RunStartCapture
    \/ RunLoopTest
    \/ RunTick
    \/ RunSleep
    \/ RunFinally
    \/ StopBegin
    \/ StopWait

SpecLifecycle == InitLifecycle /\ [][NextLifecycle]_vars

\* The worker thread is scheduled again and again, and a wait() that can
\* return does return.
SpecLifecycleFair == SpecLifecycle /\ WF_vars(RunStep) /\ WF_vars(StopWait)

\* stop() is in progress.
Stopping == lifecycle.gui = "wait"

\* stop() has returned with the loop left and the capture context released.
StopReturned ==
    /\ lifecycle.gui = "stopped_ui"
    /\ lifecycle.thread = "none"
    /\ lifecycle.capture # "open"

\* C27: after start() followed by stop(), in every interleaving of stop()
\* with the worker thread's run(), the tick loop eventually exits, the
\* capture context is released and stop() returns; no tick runs after stop()
\* has returned.
C27_AsStated ==
    /\ Stopping ~> StopReturned
    /\ [](~lifecycle.tick_after_return)

\* No tick runs after stop() has returned.
C27_NoTickAfterReturn == ~lifecycle.tick_after_return

\* A stop() whose cleared flag can no longer be overwritten by run()'s entry
\* returns with the loop left and the capture released.
C27_StopAfterRunEntered ==
    (Stopping /\ ~lifecycle.running /\ lifecycle.thread # "scheduled") ~> StopReturned

(* --------------------------- Capturing one key ------------------------ *)

\* key.name / key.char of the released key.
KeyChoices == {<<"A">>, <<"f", "5">>}

\* button.name of the mouse button.
LeftButton == <<"l", "e", "f", "t">>

ButtonChoices == {LeftButton, <<"r", "i", "g", "h", "t">>}

\* self.captured.emit(result) from one of the callbacks.
Emit(source) ==
    Append(onekey.emitted,
           [value        |-> onekey.result,
            source       |-> source,
            left_click   |-> source = "click" /\ onekey.m_button = LeftButton,
            after_cancel |-> onekey.cancelled])

\* The keyboard listener calls on_key for a released key.
KeyEvent ==
    /\ onekey.k_pc = "idle"
    /\ onekey.run_pc = "loop"
    /\ \E key \in KeyChoices :
        onekey' = [onekey EXCEPT !.k_pc = "check", !.k_key = key]
    /\ UNCHANGED <<gate_vars, OutsideOneKey>>

\* on_key: `if self._done: return False`
KeyCheckDone ==
    /\ onekey.k_pc = "check"
    /\ onekey' = [onekey EXCEPT !.k_pc = IF onekey.done THEN "stopped" ELSE "assign"]
    /\ UNCHANGED <<gate_vars, OutsideOneKey>>

\* on_key: result = key.name.lower() (or key.char.lower())
KeyAssign ==
    /\ onekey.k_pc = "assign"
    /\ onekey' = [onekey EXCEPT !.k_pc = "test", !.result = Lower(onekey.k_key)]
    /\ UNCHANGED <<gate_vars, OutsideOneKey>>

\* on_key: `if result: self._done = True`, else return False
KeySetDone ==
    /\ onekey.k_pc = "test"
    /\ onekey' = IF onekey.result # <<>>
                 THEN [onekey EXCEPT !.k_pc = "emit", !.done = TRUE]
                 ELSE [onekey EXCEPT !.k_pc = "stopped"]
    /\ UNCHANGED <<gate_vars, OutsideOneKey>>

\* on_key: self.captured.emit(result); return False
KeyEmit ==
    /\ onekey.k_pc = "emit"
    /\ onekey' = [onekey EXCEPT !.k_pc = "stopped", !.emitted = Emit("key")]
    /\ UNCHANGED <<gate_vars, OutsideOneKey>>

\* The mouse listener calls on_click.
ClickEvent ==
    /\ onekey.m_pc = "idle"
    /\ onekey.run_pc = "loop"
    /\ \E button \in ButtonChoices, pressed \in BOOLEAN :
        onekey' = [onekey EXCEPT !.m_pc = "check", !.m_button = button,
                                 !.m_pressed = pressed]
    /\ UNCHANGED <<gate_vars, OutsideOneKey>>

\* on_click: `if self._done or not pressed:`
ClickCheckDone ==
    /\ onekey.m_pc = "check"
    /\ onekey' = [onekey EXCEPT
           !.m_pc = IF onekey.done \/ ~onekey.m_pressed THEN "return" ELSE "assign"]
    /\ UNCHANGED <<gate_vars, OutsideOneKey>>

\* on_click: `return not self._done`
ClickReturn ==
    /\ onekey.m_pc = "return"
    /\ onekey' = [onekey EXCEPT !.m_pc = IF onekey.done THEN "stopped" ELSE "idle"]
    /\ UNCHANGED <<gate_vars, OutsideOneKey>>

\* on_click: result = getattr(button, "name", str(button)).lower()
ClickAssign ==
    /\ onekey.m_pc = "assign"
    /\ onekey' = [onekey EXCEPT !.m_pc = "left", !.result = Lower(onekey.m_button)]
    /\ UNCHANGED <<gate_vars, OutsideOneKey>>

\* on_click: `if result == "left": return True`
ClickTestLeft ==
    /\ onekey.m_pc = "left"
    /\ onekey' = [onekey EXCEPT !.m_pc = IF onekey.result = LeftButton THEN "idle" ELSE "test"]
    /\ UNCHANGED <<gate_vars, OutsideOneKey>>

\* on_click: `if result: self._done = True`, else return False
ClickSetDone ==
    /\ onekey.m_pc = "test"
    /\ onekey' = IF onekey.result # <<>>
                 THEN [onekey EXCEPT !.m_pc = "emit", !.done = TRUE]
                 ELSE [onekey EXCEPT !.m_pc = "stopped"]
    /\ UNCHANGED <<gate_vars, OutsideOneKey>>

\* on_click: self.captured.emit(result); return False
ClickEmit ==
    /\ onekey.m_pc = "emit"
    /\ onekey' = [onekey EXCEPT !.m_pc = "stopped", !.emitted = Emit("click")]
    /\ UNCHANGED <<gate_vars, OutsideOneKey>>

\* cancel(), from the GUI thread.
CancelCapture ==
    /\ ~onekey.cancelled
    /\ onekey' = [onekey EXCEPT !.done = TRUE, !.cancelled = TRUE]
    /\ UNCHANGED <<gate_vars, OutsideOneKey>>

\* run(): the polling loop ends and both listeners are stopped; a callback
\* that is being executed runs to its end.
RunLoopEnd ==
    /\ onekey.run_pc = "loop"
    /\ onekey.done \/ (onekey.k_pc = "stopped" /\ onekey.m_pc = "stopped")
    /\ onekey' = [onekey EXCEPT !.run_pc = "ended"]
    /\ UNCHANGED <<gate_vars, OutsideOneKey>>

InitOneKey ==
    /\ InitCommon
    /\ OthersIdle
    /\ min_press_interval_ms = 75
    /\ has_listener = FALSE
    /\ priority_order = <<>>
    /\ keybinds = <<>>

NextOneKey ==
    \/ KeyEvent
    \/ KeyCheckDone
    \/ KeyAssign
    \/ KeySetDone
    \/ KeyEmit
    \/ ClickEvent
    \/ ClickCheckDone
    \/ ClickReturn
    \/ ClickAssign
    \/ ClickTestLeft
    \/ ClickSetDone
    \/ ClickEmit
    \/ CancelCapture
    \/ RunLoopEnd

SpecOneKey == InitOneKey /\ [][NextOneKey]_vars

\* C28: in one run `captured` is emitted at most once, in every interleaving
\* of the keyboard-listener and mouse-listener callbacks, and it is never
\* emitted for a left mouse click or after cancel() has been called.
C28_AsStated ==
    /\ Len(onekey.emitted) <= 1
    /\ \A k \in 1 .. Len(onekey.emitted) :
        /\ ~onekey.emitted[k].left_click
        /\ onekey.emitted[k].value # <<"l", "e", "f", "t">>
        /\ ~onekey.emitted[k].after_cancel

(* ------------------------------ crop_slot ----------------------------- *)

\* slot_padding values (3 is the migrated default).
PaddingChoices == {0, 1, 3}

\* SlotAnalyzer.crop_slot: the index ranges [y1:y2, x1:x2] it selects.
CropSlotRegion(slot, pad) ==
    LET x1 == slot.x_offset + pad
        y1 == slot.y_offset + pad
        w  == Max2(1, slot.width - 2 * pad)
        h  == Max2(1, slot.height - 2 * pad)
    IN  [x1 |-> x1, y1 |-> y1, x2 |-> x1 + w, y2 |-> y1 + h]

\* update_config with a config that differs in slot_padding only: the layout
\* it recomputes is the one already stored.
UpdateSlotPadding ==
    /\ \E pad \in PaddingChoices :
        /\ pad # cropping.slot_padding
        /\ cropping' = [cropping EXCEPT !.slot_padding = pad]
    /\ UNCHANGED <<gate_vars, OutsideCrop>>

\* crop_slot(frame, slot) for one slot of the layout.
CropSlot ==
    /\ \E k \in 1 .. Len(slot_configs) :
        cropping' = [cropping EXCEPT
            !.crop = << [slot   |-> slot_configs[k],
                         pad    |-> cropping.slot_padding,
                         region |-> CropSlotRegion(slot_configs[k], cropping.slot_padding)] >>]
    /\ UNCHANGED <<gate_vars, OutsideCrop>>

InitCropSlot ==
    /\ InitCommon
    /\ CastIdle /\ RaceIdle /\ CalibIdle /\ WorkerIdle /\ PlanIdle /\ BuffIdle /\ GlowIdle /\ SimilarityIdle /\ ManagerIdle /\ ProfileIdle /\ PersistIdle /\ LifecycleIdle /\ OneKeyIdle
    /\ min_press_interval_ms = 75
    /\ has_listener = FALSE
    /\ priority_order = <<>>
    /\ keybinds = <<>>
    /\ analyzer_config \in AnalyzerConfigs
    /\ slot_configs = RecomputeSlotLayout(analyzer_config)
    /\ baselines = [i \in SlotIndices |-> <<>>]
    /\ snapshots = <<>>
    /\ analyzer_last = "__init__"
    /\ \E pad \in PaddingChoices : cropping = [slot_padding |-> pad, crop |-> <<>>]

NextCropSlot ==
    \/ UpdateConfig
    \/ UpdateSlotPadding
    \/ CropSlot

SpecCropSlot == InitCropSlot /\ [][NextCropSlot]_vars

\* The selected region lies within the slot's own rectangle.
WithinSlot(slot, region) ==
    /\ slot.x_offset <= region.x1
    /\ region.x1 < region.x2
    /\ region.x2 <= slot.x_offset + slot.width
    /\ slot.y_offset <= region.y1
    /\ region.y1 < region.y2
    /\ region.y2 <= slot.y_offset + slot.height

\* C29: for every slot produced by the layout and every slot_padding >= 0,
\* the region crop_slot selects lies entirely within that slot's own
\* rectangle.
C29_AsStated ==
    cropping.crop # <<>> =>
        WithinSlot(cropping.crop[1].slot, cropping.crop[1].region)

\* Whenever the padding is smaller than both sides of the slot, the region
\* lies within the slot.
C29_SmallPaddingWithinSlot ==
    (/\ cropping.crop # <<>>
     /\ cropping.crop[1].pad < cropping.crop[1].slot.width
     /\ cropping.crop[1].pad < cropping.crop[1].slot.height) =>
        WithinSlot(cropping.crop[1].slot, cropping.crop[1].region)

(* ------------------ The action bar in the captured frame -------------- *)

\* The captured rectangle lies inside the monitor and is not empty.
CaptureInsideMonitor ==
    /\ 0 <= Plan.capture_bbox.left
    /\ 0 <= Plan.capture_bbox.top
    /\ Plan.capture_bbox.width >= 1
    /\ Plan.capture_bbox.height >= 1
    /\ Plan.capture_bbox.left + Plan.capture_bbox.width <= Plan.monitor.width
    /\ Plan.capture_bbox.top + Plan.capture_bbox.height <= Plan.monitor.height

\* The action bar placed at action_origin fits within the captured rectangle.
ActionBarInFrame ==
    /\ Plan.action_origin[1] >= 0
    /\ Plan.action_origin[2] >= 0
    /\ Plan.action_origin[1] + Plan.config.bounding_box.width <= Plan.capture_bbox.width
    /\ Plan.action_origin[2] + Plan.config.bounding_box.height <= Plan.capture_bbox.height

\* C30: for every bounding box, ROI configuration and monitor size the plan
\* is a non-empty rectangle inside the monitor, and action_origin has both
\* components >= 0 with the action bar placed there fitting entirely within
\* the captured rectangle.
C30_AsStated ==
    Planned => (CaptureInsideMonitor /\ ActionBarInFrame)

\* The captured rectangle is always a non-empty rectangle inside the monitor.
C30_CaptureInsideMonitor == Planned => CaptureInsideMonitor

\* When the action bar itself lies inside the monitor, it fits within the
\* captured rectangle at action_origin.
C30_BarInsideMonitorFits ==
    (Planned /\ Inside(Absolute(Plan.config.bounding_box,
                                [left |-> 0, top |-> 0,
                                 width |-> Plan.config.bounding_box.width,
                                 height |-> Plan.config.bounding_box.height]),
                       Plan.monitor))
        => ActionBarInFrame

====
